---- MODULE Spec2Model ----
(***************************************************************************)
(* Model of the rocket_lab UDP discovery-and-test protocol engine:         *)
(*   - the message codec      (rocket_lab/data.py, DeviceMessage)          *)
(*   - the discovery parser   (rocket_lab/data.py, DiscoveryData)          *)
(*   - the multicast client   (rocket_lab/udp.py, udp_multicast_client)    *)
(*   - the test session       (rocket_lab/networking.py, run_test and      *)
(*                             udp_client)                                 *)
(*   - the status sample      (rocket_lab/data.py, StatusData)             *)
(*   - the record ordering    (rocket_lab/data.py, DiscoveryData.__lt__    *)
(*                             under total_ordering)                       *)
(*                                                                         *)
(* Text and byte strings are sequences of one-character strings, so that   *)
(* splitting, formatting and parsing are computed character by character.  *)
(***************************************************************************)
EXTENDS Integers, Sequences, FiniteSets

VARIABLES
    pc,         \* position of the run_test generator
    sock,       \* the udp_client socket: "none", "open" or "closed"
    duration,   \* run_test argument
    rate,       \* run_test argument
    sent,       \* byte strings sent on the session socket, in order
    raw,        \* the datagram last returned by sock.recv
    rcvd,       \* history: datagrams received by the session, in order
    yielded,    \* history: items yielded to the caller of run_test, in order
    raised,     \* the exception delivered to the caller of run_test
    dpc,        \* position of the discovery call
    dsock,      \* the multicast socket: "none", "open" or "closed"
    dsent,      \* byte strings sent on the multicast socket, in order
    datagrams,  \* udp_multicast_client's list of Datagram tuples
    devices,    \* the list returned by DiscoveryData.from_datagrams
    draised,    \* the exception delivered to the caller of from_datagrams
    drcvd,      \* history: what sock.recvfrom returned, in order
    dlast,      \* (data, address) last returned by sock.recvfrom
    cpc,        \* position of the codec run
    input,      \* the byte string given to DeviceMessage.from_bytes
    decoded,    \* what from_bytes(input) returned or raised
    wire,       \* to_bytes() of the decoded message
    redecoded,  \* what from_bytes(wire) returned or raised
    status,     \* what StatusData.from_message returned or raised
    opc,        \* position of the ordering run
    recs,       \* a list of DiscoveryData records
    compared,   \* results of the comparison operators on recs[1], recs[2]
    ordered,    \* recs after list.sort()
    apc,        \* position of the argument conversion
    argument,   \* the string given to argparse_address_tuple
    converted,  \* what argparse_address_tuple returned or raised
    pair,       \* the state of each of two concurrent run_test generators
    chan        \* datagrams each device has sent to each session's socket

svars == <<pc, sock, duration, rate, sent, raw, rcvd, yielded, raised>>
dvars == <<dpc, dsock, dsent, datagrams, devices, draised, drcvd, dlast>>
cvars == <<cpc, input, decoded, wire, redecoded, status>>
ovars == <<opc, recs, compared, ordered>>
avars == <<apc, argument, converted>>
pvars == <<pair, chan>>
vars == <<pc, sock, duration, rate, sent, raw, rcvd, yielded, raised,
          dpc, dsock, dsent, datagrams, devices, draised, drcvd, dlast,
          cpc, input, decoded, wire, redecoded, status,
          opc, recs, compared, ordered,
          apc, argument, converted,
          pair, chan>>

(***************************************************************************)
(* Bounds of the model.                                                    *)
(***************************************************************************)
\* datagrams a device sends in one bounded session
MaxRecv == 3
\* responses collected in one discovery window
MaxResponses == 3
\* datagrams the histories record in a session with an endless device
MaxStreamLog == 1
\* responses the list records in a discovery with endless responders
MaxMcastLog == 1

(***************************************************************************)
(* Text.                                                                   *)
(***************************************************************************)
Range(s) == {s[i] : i \in 1..Len(s)}

sTEST == <<"T","E","S","T">>
sSTATUS == <<"S","T","A","T","U","S">>
sID == <<"I","D">>
sCMD == <<"C","M","D">>
sSTART == <<"S","T","A","R","T">>
sDURATION == <<"D","U","R","A","T","I","O","N">>
sRATE == <<"R","A","T","E">>
sRESULT == <<"R","E","S","U","L","T">>
sSTARTED == <<"S","T","A","R","T","E","D">>
sSTATE == <<"S","T","A","T","E">>
sIDLE == <<"I","D","L","E">>
sMODEL == <<"M","O","D","E","L">>
sSERIAL == <<"S","E","R","I","A","L">>

Digits == <<"0","1","2","3","4","5","6","7","8","9">>

\* str(n) of a non-negative int
RECURSIVE StrNat(_)
StrNat(n) ==
    IF n < 10 THEN <<Digits[n + 1]>>
    ELSE Append(StrNat(n \div 10), Digits[(n % 10) + 1])

\* str(n) of an int
StrInt(n) == IF n < 0 THEN <<"-">> \o StrNat(0 - n) ELSE StrNat(n)

\* str.split(sep) for a one-character separator
Split(s, sep) ==
    LET F[i \in 0..Len(s)] ==
            IF i = 0 THEN << <<>> >>
            ELSE LET prev == F[i - 1] IN
                 IF s[i] = sep THEN Append(prev, <<>>)
                 ELSE [prev EXCEPT ![Len(prev)] = Append(@, s[i])]
    IN F[Len(s)]

\* "".join(parts)
RECURSIVE Join(_)
Join(parts) == IF parts = <<>> THEN <<>> ELSE Head(parts) \o Join(Tail(parts))

\* bytes.decode('ISO-8859-1', errors='replace'): every byte is the character
\* of the same code point, no byte is invalid
DecodeBytes(binary) == [i \in 1..Len(binary) |-> binary[i]]

\* The characters ISO-8859-1 can encode, among those the model uses; "EUR"
\* stands for a character outside it.
NonLatin1 == {"EUR"}

\* The characters of the model that ASCII cannot encode
NonAscii == NonLatin1 \cup {"E9"}

\* str.encode('ascii', errors='replace')
EncodeAscii(string) ==
    [i \in 1..Len(string) |-> IF string[i] \in NonAscii THEN "?" ELSE string[i]]

\* str.encode('ISO-8859-1', errors='replace')
EncodeString(string) ==
    [i \in 1..Len(string) |-> IF string[i] \in NonLatin1 THEN "?" ELSE string[i]]

(***************************************************************************)
(* dict: a sequence of <<key, value>> pairs with distinct keys, in         *)
(* insertion order.                                                        *)
(***************************************************************************)
Keys(d) == {d[i][1] : i \in 1..Len(d)}

HasKey(d, k) == k \in Keys(d)

\* d[k], for a key of d
Get(d, k) == d[CHOOSE i \in 1..Len(d) : d[i][1] = k][2]

\* d[k] = v: a present key keeps its position
DictSet(d, k, v) ==
    IF HasKey(d, k)
    THEN [i \in 1..Len(d) |-> IF d[i][1] = k THEN <<k, v>> ELSE d[i]]
    ELSE Append(d, <<k, v>>)

(***************************************************************************)
(* Exceptions.                                                             *)
(***************************************************************************)
NoError == [type |-> "None", text |-> "", args |-> <<>>]

Error(type, text, args) == [type |-> type, text |-> text, args |-> args]

(***************************************************************************)
(* DeviceMessage (rocket_lab/data.py).                                     *)
(***************************************************************************)
DeviceMessage(name, data) == [name |-> name, data |-> data]

\* The loop of from_bytes, skipping a part that has not exactly one "="
\* instead of raising
RECURSIVE ParsePartsLenient(_, _, _, _)
ParsePartsLenient(parts, i, data, binary) ==
    IF i > Len(parts) THEN [ok |-> TRUE, data |-> data, error |-> NoError]
    ELSE LET entry == Split(parts[i], "=") IN
         IF Len(entry) = 2
         THEN ParsePartsLenient(parts, i + 1, DictSet(data, entry[1], entry[2]), binary)
         ELSE ParsePartsLenient(parts, i + 1, data, binary)

\* The loop of from_bytes without the skip of empty parts: an empty part
\* raises as any other part without "=" does
RECURSIVE ParsePartsStrict(_, _, _, _)
ParsePartsStrict(parts, i, data, binary) ==
    IF i > Len(parts) THEN [ok |-> TRUE, data |-> data, error |-> NoError]
    ELSE LET entry == Split(parts[i], "=") IN
         IF Len(entry) = 2
         THEN ParsePartsStrict(parts, i + 1, DictSet(data, entry[1], entry[2]), binary)
         ELSE [ok |-> FALSE, data |-> <<>>,
               error |-> Error("ValueError", "Could not parse {part} from {binary!r}",
                               <<parts[i], binary>>)]

\* The loop of from_bytes over parts[1:], from position i on: an empty part
\* is skipped, a part with exactly one "=" is stored, any other part raises.
RECURSIVE ParseParts(_, _, _, _)
ParseParts(parts, i, data, binary) ==
    IF i > Len(parts) THEN [ok |-> TRUE, data |-> data, error |-> NoError]
    ELSE IF parts[i] = <<>> THEN ParseParts(parts, i + 1, data, binary)
    ELSE LET entry == Split(parts[i], "=") IN
         IF Len(entry) = 2
         THEN ParseParts(parts, i + 1, DictSet(data, entry[1], entry[2]), binary)
         ELSE [ok |-> FALSE, data |-> <<>>,
               error |-> Error("ValueError", "Could not parse {part} from {binary!r}",
                               <<parts[i], binary>>)]

\* from_bytes without the check of the name
from_bytes_any_name(binary) ==
    LET string == DecodeBytes(binary)
        parts == Split(string, ";")
        name == parts[1]
        loop == ParseParts(parts, 2, <<>>, binary)
    IN  IF ~loop.ok
        THEN [ok |-> FALSE, message |-> DeviceMessage(<<>>, <<>>), error |-> loop.error]
        ELSE [ok |-> TRUE, message |-> DeviceMessage(name, loop.data), error |-> NoError]

\* DeviceMessage.from_bytes: the message, or the ValueError it raises
from_bytes(binary) ==
    LET string == DecodeBytes(binary)
        parts == Split(string, ";")
        name == parts[1]
        loop == ParseParts(parts, 2, <<>>, binary)
    IN  IF ~loop.ok
        THEN [ok |-> FALSE, message |-> DeviceMessage(<<>>, <<>>), error |-> loop.error]
        ELSE IF name = <<>>
        THEN [ok |-> FALSE, message |-> DeviceMessage(<<>>, <<>>),
              error |-> Error("ValueError", "Empty message", <<>>)]
        ELSE [ok |-> TRUE, message |-> DeviceMessage(name, loop.data), error |-> NoError]

\* to_string joining the parts with ";" between them, none after the last
to_string_unterminated(message) ==
    LET parts == <<message.name>> \o
                 [i \in 1..Len(message.data) |->
                     message.data[i][1] \o <<"=">> \o message.data[i][2]]
    IN  Join([i \in 1..Len(parts) |->
                 IF i < Len(parts) THEN parts[i] \o <<";">> ELSE parts[i]])

\* to_string writing the entries last to first
to_string_reversed(message) ==
    LET n == Len(message.data)
        parts == <<message.name>> \o
                 [i \in 1..n |->
                     message.data[n + 1 - i][1] \o <<"=">> \o message.data[n + 1 - i][2]]
    IN  Join([i \in 1..Len(parts) |-> parts[i] \o <<";">>])

\* DeviceMessage.to_string. The values of the mapping are held as their
\* str(), which is what f"{k}={v}" makes of them.
to_string(message) ==
    LET parts == <<message.name>> \o
                 [i \in 1..Len(message.data) |->
                     message.data[i][1] \o <<"=">> \o message.data[i][2]]
    IN  Join([i \in 1..Len(parts) |-> parts[i] \o <<";">>])

\* DeviceMessage.to_bytes
to_bytes(message) == EncodeString(to_string(message))

(***************************************************************************)
(* DiscoveryData (rocket_lab/data.py).                                     *)
(***************************************************************************)
Datagram(address, port, data) == [address |-> address, port |-> port, data |-> data]

DiscoveryData(address, port, model, serial) ==
    [address |-> address, port |-> port, model |-> model, serial |-> serial]

NoDevice == DiscoveryData("", 0, <<>>, <<>>)

\* from_datagram that reads SERIAL with a default instead of requiring it
from_datagram_serial_optional(datagram) ==
    LET parsed == from_bytes(datagram.data)
        message == parsed.message
    IN  IF ~parsed.ok
        THEN [ok |-> FALSE, device |-> NoDevice, error |-> parsed.error]
        ELSE IF ~HasKey(message.data, sMODEL)
        THEN [ok |-> FALSE, device |-> NoDevice,
              error |-> Error("RuntimeError", "Device data missing: {e} not found",
                              <<sMODEL>>)]
        ELSE [ok |-> TRUE,
              device |-> DiscoveryData(datagram.address, datagram.port,
                                       Get(message.data, sMODEL),
                                       IF HasKey(message.data, sSERIAL)
                                       THEN Get(message.data, sSERIAL) ELSE <<>>),
              error |-> NoError]

\* DiscoveryData.from_datagram: the record, or the exception it raises.
\* from_bytes is called outside the try block, so its ValueError leaves
\* from_datagram as a ValueError; a missing key becomes a RuntimeError.
from_datagram(datagram) ==
    LET parsed == from_bytes(datagram.data)
        message == parsed.message
    IN  IF ~parsed.ok
        THEN [ok |-> FALSE, device |-> NoDevice, error |-> parsed.error]
        ELSE IF ~HasKey(message.data, sMODEL)
        THEN [ok |-> FALSE, device |-> NoDevice,
              error |-> Error("RuntimeError", "Device data missing: {e} not found",
                              <<sMODEL>>)]
        ELSE IF ~HasKey(message.data, sSERIAL)
        THEN [ok |-> FALSE, device |-> NoDevice,
              error |-> Error("RuntimeError", "Device data missing: {e} not found",
                              <<sSERIAL>>)]
        ELSE [ok |-> TRUE,
              device |-> DiscoveryData(datagram.address, datagram.port,
                                       Get(message.data, sMODEL),
                                       Get(message.data, sSERIAL)),
              error |-> NoError]

\* The loop of from_datagrams, collecting the devices as a set would: a
\* record equal to one already collected is not added again
RECURSIVE FromDatagramsMerging(_, _, _)
FromDatagramsMerging(dgs, i, devs) ==
    IF i > Len(dgs) THEN [devices |-> devs, error |-> NoError]
    ELSE LET r == from_bytes(dgs[i].data) IN
         IF r.ok /\ HasKey(r.message.data, sMODEL) /\ HasKey(r.message.data, sSERIAL)
         THEN LET device == DiscoveryData(dgs[i].address, dgs[i].port,
                                          Get(r.message.data, sMODEL),
                                          Get(r.message.data, sSERIAL))
              IN  FromDatagramsMerging(dgs, i + 1,
                      IF device \in Range(devs) THEN devs ELSE Append(devs, device))
         ELSE IF r.ok THEN FromDatagramsMerging(dgs, i + 1, devs)
         ELSE [devices |-> <<>>, error |-> r.error]

\* The loop of from_datagrams from position i on: a RuntimeError is caught
\* and the datagram skipped; any other exception ends the call.
RECURSIVE FromDatagramsLoop(_, _, _)
FromDatagramsLoop(dgs, i, devs) ==
    IF i > Len(dgs) THEN [devices |-> devs, error |-> NoError]
    ELSE LET r == from_datagram(dgs[i]) IN
         IF r.ok THEN FromDatagramsLoop(dgs, i + 1, Append(devs, r.device))
         ELSE IF r.error.type = "RuntimeError" THEN FromDatagramsLoop(dgs, i + 1, devs)
         ELSE [devices |-> <<>>, error |-> r.error]

\* DiscoveryData.from_datagrams: the list it returns, or the exception that
\* leaves it
from_datagrams(dgs) == FromDatagramsLoop(dgs, 1, <<>>)

(***************************************************************************)
(* Ordering of DiscoveryData (rocket_lab/data.py): __lt__ is written out,  *)
(* __eq__ is the dataclass's, the others are filled in by total_ordering.  *)
(***************************************************************************)
\* ord(c), for the characters of the model and serial numbers in the model
Ord(c) ==
    IF c \in Range(Digits) THEN 47 + (CHOOSE i \in 1..Len(Digits) : Digits[i] = c)
    ELSE CASE c = "M" -> 77
           [] c = "N" -> 78
           [] c = "S" -> 83

\* str < str: the first differing character decides, a proper prefix is less
RECURSIVE StrLt(_, _)
StrLt(a, b) ==
    IF b = <<>> THEN FALSE
    ELSE IF a = <<>> THEN TRUE
    ELSE IF Head(a) = Head(b) THEN StrLt(Tail(a), Tail(b))
    ELSE Ord(Head(a)) < Ord(Head(b))

\* __lt__ ordering by serial number, then model
lt_serial_first(self, other) ==
    IF self.serial # other.serial THEN StrLt(self.serial, other.serial)
    ELSE StrLt(self.model, other.model)

\* DiscoveryData.__lt__: (self.model, self.serial) < (other.model, other.serial)
lt(self, other) ==
    IF self.model # other.model THEN StrLt(self.model, other.model)
    ELSE StrLt(self.serial, other.serial)

\* __eq__ comparing what __lt__ compares: model and serial only
eq_model_serial(self, other) ==
    /\ self.model = other.model
    /\ self.serial = other.serial

\* DiscoveryData.__eq__ of dataclass(eq=True): the tuples of all the fields
\* are equal
eq(self, other) ==
    /\ self.address = other.address
    /\ self.port = other.port
    /\ self.model = other.model
    /\ self.serial = other.serial

\* __gt__ of total_ordering: not self < other and self != other
gt(self, other) == ~lt(self, other) /\ ~eq(self, other)

\* __le__ of total_ordering: self < other or self == other
le(self, other) == lt(self, other) \/ eq(self, other)

\* __ge__ of total_ordering: not self < other
ge(self, other) == ~lt(self, other)

\* DiscoveryData.__hash__ of dataclass(eq=True, frozen=True): the hash of
\* the tuple of all the fields, held as that tuple
hash_of(self) == <<self.address, self.port, self.model, self.serial>>

\* mapping = {a: value}; b in mapping: the hashes agree and the keys are equal
same_entry(a, b) == hash_of(a) = hash_of(b) /\ eq(a, b)

\* The five comparisons of a with b, and whether b finds the entry of a
Comparison(a, b) ==
    [lt |-> lt(a, b), le |-> le(a, b), gt |-> gt(a, b), ge |-> ge(a, b),
     eq |-> eq(a, b), entry |-> same_entry(a, b)]

NoComparison ==
    [ab |-> Comparison(NoDevice, NoDevice), ba |-> Comparison(NoDevice, NoDevice)]

\* One step of the sort: x goes behind every element it is not less than
RECURSIVE Insert(_, _)
Insert(s, x) ==
    IF s = <<>> THEN <<x>>
    ELSE IF lt(x, s[Len(s)])
    THEN Append(Insert(SubSeq(s, 1, Len(s) - 1), x), s[Len(s)])
    ELSE Append(s, x)

\* list.sort() on a list of DiscoveryData: a stable sort that compares with
\* __lt__ only
list_sort(l) ==
    LET F[i \in 0..Len(l)] == IF i = 0 THEN <<>> ELSE Insert(F[i - 1], l[i])
    IN  F[Len(l)]

(***************************************************************************)
(* StatusData (rocket_lab/data.py).  A float is held as the decimal number *)
(* its text denotes, m / 10^e with the smallest e; the rounding to binary  *)
(* floating point is not part of the model.                                *)
(***************************************************************************)
sMA == <<"M","A">>
sMV == <<"M","V">>
sTIME == <<"T","I","M","E">>

RECURSIVE Decimal(_, _)
Decimal(m, e) ==
    IF e > 0 /\ m % 10 = 0 THEN Decimal(m \div 10, e - 1) ELSE [m |-> m, e |-> e]

\* The number a string of digits denotes
RECURSIVE NatOf(_)
NatOf(ds) ==
    IF ds = <<>> THEN 0
    ELSE 10 * NatOf(SubSeq(ds, 1, Len(ds) - 1))
         + (CHOOSE i \in 1..Len(Digits) : Digits[i] = ds[Len(ds)]) - 1

\* float(string), for strings without exponent, underscore, blank, "inf" or
\* "nan": an optional sign, then digits with at most one point among them
float(string) ==
    LET signed == string # <<>> /\ string[1] \in {"+", "-"}
        body == IF signed THEN Tail(string) ELSE string
        parts == Split(body, ".")
        digits == Join(parts)
        valid == /\ Len(parts) \in {1, 2}
                 /\ digits # <<>>
                 /\ \A i \in 1..Len(digits) : digits[i] \in Range(Digits)
        magnitude == NatOf(digits)
    IN  IF valid
        THEN [ok |-> TRUE,
              value |-> Decimal(IF signed /\ string[1] = "-" THEN 0 - magnitude
                                ELSE magnitude,
                                IF Len(parts) = 2 THEN Len(parts[2]) ELSE 0)]
        ELSE [ok |-> FALSE, value |-> Decimal(0, 0)]

\* value / 100.0
DivideBy100(value) == Decimal(value.m, value.e + 2)

\* value / 1000.0
DivideBy1000(value) == Decimal(value.m, value.e + 3)

StatusData(ma, mv, time) == [ma |-> ma, mv |-> mv, time |-> time]

NoSample == StatusData(Decimal(0, 0), Decimal(0, 0), Decimal(0, 0))

\* The outcome of from_message when it raises
StatusError(text, args) ==
    [ok |-> FALSE, sample |-> NoSample, error |-> Error("ValueError", text, args)]

\* from_message with one handler for both exceptions: a value float()
\* rejects is reported with the text of a missing key
from_message_one_handler(message) ==
    LET data == message.data IN
    IF message.name # sSTATUS
    THEN StatusError("Expected a message of type 'STATUS', got {message.name!r}",
                     <<message.name>>)
    ELSE IF ~HasKey(data, sMA)
    THEN StatusError("Status data missing: {e} not found", <<sMA>>)
    ELSE IF ~float(Get(data, sMA)).ok
    THEN StatusError("Status data missing: {e} not found", <<Get(data, sMA)>>)
    ELSE IF ~HasKey(data, sMV)
    THEN StatusError("Status data missing: {e} not found", <<sMV>>)
    ELSE IF ~float(Get(data, sMV)).ok
    THEN StatusError("Status data missing: {e} not found", <<Get(data, sMV)>>)
    ELSE IF ~HasKey(data, sTIME)
    THEN StatusError("Status data missing: {e} not found", <<sTIME>>)
    ELSE IF ~float(Get(data, sTIME)).ok
    THEN StatusError("Status data missing: {e} not found", <<Get(data, sTIME)>>)
    ELSE [ok |-> TRUE,
          sample |-> StatusData(float(Get(data, sMA)).value,
                                float(Get(data, sMV)).value,
                                DivideBy1000(float(Get(data, sTIME)).value)),
          error |-> NoError]

\* from_message reading TIME with a default of "0" when the key is absent
from_message_time_optional(message) ==
    LET data == message.data
        time == IF HasKey(data, sTIME) THEN Get(data, sTIME) ELSE <<"0">>
    IN
    IF message.name # sSTATUS
    THEN StatusError("Expected a message of type 'STATUS', got {message.name!r}",
                     <<message.name>>)
    ELSE IF ~HasKey(data, sMA)
    THEN StatusError("Status data missing: {e} not found", <<sMA>>)
    ELSE IF ~float(Get(data, sMA)).ok
    THEN StatusError("Invalid status data: {e}", <<Get(data, sMA)>>)
    ELSE IF ~HasKey(data, sMV)
    THEN StatusError("Status data missing: {e} not found", <<sMV>>)
    ELSE IF ~float(Get(data, sMV)).ok
    THEN StatusError("Invalid status data: {e}", <<Get(data, sMV)>>)
    ELSE IF ~float(time).ok
    THEN StatusError("Invalid status data: {e}", <<time>>)
    ELSE [ok |-> TRUE,
          sample |-> StatusData(float(Get(data, sMA)).value,
                                float(Get(data, sMV)).value,
                                DivideBy1000(float(time).value)),
          error |-> NoError]

\* StatusData.from_message: the sample, or the ValueError it raises.  The
\* three conversions run in the order MA, MV, TIME and the first lookup or
\* float() that fails ends the call.
from_message(message) ==
    LET data == message.data IN
    IF message.name # sSTATUS
    THEN StatusError("Expected a message of type 'STATUS', got {message.name!r}",
                     <<message.name>>)
    ELSE IF ~HasKey(data, sMA)
    THEN StatusError("Status data missing: {e} not found", <<sMA>>)
    ELSE IF ~float(Get(data, sMA)).ok
    THEN StatusError("Invalid status data: {e}", <<Get(data, sMA)>>)
    ELSE IF ~HasKey(data, sMV)
    THEN StatusError("Status data missing: {e} not found", <<sMV>>)
    ELSE IF ~float(Get(data, sMV)).ok
    THEN StatusError("Invalid status data: {e}", <<Get(data, sMV)>>)
    ELSE IF ~HasKey(data, sTIME)
    THEN StatusError("Status data missing: {e} not found", <<sTIME>>)
    ELSE IF ~float(Get(data, sTIME)).ok
    THEN StatusError("Invalid status data: {e}", <<Get(data, sTIME)>>)
    ELSE [ok |-> TRUE,
          sample |-> StatusData(float(Get(data, sMA)).value,
                                float(Get(data, sMV)).value,
                                DivideBy1000(float(Get(data, sTIME)).value)),
          error |-> NoError]

(***************************************************************************)
(* argparse_address_tuple (rocket_lab/command_line.py).                    *)
(***************************************************************************)
\* Position of the last sep in s, 0 when there is none
LastIndex(s, sep) ==
    IF \E i \in 1..Len(s) : s[i] = sep
    THEN CHOOSE i \in 1..Len(s) :
             s[i] = sep /\ \A j \in (i + 1)..Len(s) : s[j] # sep
    ELSE 0

\* Position of the first sep in s, 0 when there is none
FirstIndex(s, sep) ==
    IF \E i \in 1..Len(s) : s[i] = sep
    THEN CHOOSE i \in 1..Len(s) :
             s[i] = sep /\ \A j \in 1..(i - 1) : s[j] # sep
    ELSE 0

\* str.split(sep, maxsplit=1)
SplitOnce(s, sep) ==
    LET k == FirstIndex(s, sep) IN
    IF k = 0 THEN <<s>> ELSE <<SubSeq(s, 1, k - 1), SubSeq(s, k + 1, Len(s))>>

\* str.rsplit(sep, maxsplit=1)
RSplitOnce(s, sep) ==
    LET k == LastIndex(s, sep) IN
    IF k = 0 THEN <<s>> ELSE <<SubSeq(s, 1, k - 1), SubSeq(s, k + 1, Len(s))>>

\* int(string), for strings without underscore or blank: an optional sign,
\* then one digit or more
int(string) ==
    LET signed == string # <<>> /\ string[1] \in {"+", "-"}
        digits == IF signed THEN Tail(string) ELSE string
        valid == /\ digits # <<>>
                 /\ \A i \in 1..Len(digits) : digits[i] \in Range(Digits)
    IN  IF valid
        THEN [ok |-> TRUE,
              value |-> IF signed /\ string[1] = "-" THEN 0 - NatOf(digits)
                        ELSE NatOf(digits)]
        ELSE [ok |-> FALSE, value |-> 0]

NoAddress == [ok |-> FALSE, address |-> <<>>, port |-> 0, error |-> NoError]

\* argparse_address_tuple: the (address, port) tuple, or the
\* ArgumentTypeError it raises
argparse_address_tuple(string) ==
    LET parts == RSplitOnce(string, ":")
        address == parts[1]
    IN  IF Len(parts) < 2
        THEN [ok |-> FALSE, address |-> <<>>, port |-> 0,
              error |-> Error("ArgumentTypeError",
                              "Port number missing. Use colon to separate.", <<>>)]
        ELSE IF ~int(parts[2]).ok
        THEN [ok |-> FALSE, address |-> <<>>, port |-> 0,
              error |-> Error("ArgumentTypeError",
                              "Invalid port number. Expected integer, given {parts[1]!r}",
                              <<parts[2]>>)]
        ELSE [ok |-> TRUE, address |-> address, port |-> int(parts[2]).value,
              error |-> NoError]

NoDecode == [ok |-> FALSE, message |-> DeviceMessage(<<>>, <<>>), error |-> NoError]

NoStatus == [ok |-> FALSE, sample |-> NoSample, error |-> NoError]

(***************************************************************************)
(* Datagrams a device may send during a test session.                      *)
(***************************************************************************)
Field(key, value) == key \o <<"=">> \o value \o <<";">>

bStarted == sTEST \o <<";">> \o Field(sRESULT, sSTARTED)
bStopped == sTEST \o <<";">> \o Field(sRESULT, <<"S","T","O","P","P","E","D">>)
bTestBare == sTEST
bTestIdle == sTEST \o <<";">> \o Field(sSTATE, sIDLE)
bStatus1 == sSTATUS \o <<";">> \o Field(<<"T","I","M","E">>, <<"3","0","0">>)
                \o Field(<<"M","V">>, <<"4","4","4","8",".","9">>)
                \o Field(<<"M","A">>, <<"-","1","1",".","1">>)
bStatus2 == sSTATUS \o <<";">> \o Field(<<"T","I","M","E">>, <<"4","0","0">>)
                \o Field(<<"M","V">>, <<"5">>) \o Field(<<"M","A">>, <<"7">>)
bIdle == sSTATUS \o <<";">> \o Field(sSTATE, sIDLE)
bIdIdle == sID \o <<";">> \o Field(sSTATE, sIDLE)
bIdReply == sID \o <<";">> \o Field(sMODEL, <<"M","1">>) \o Field(sSERIAL, <<"S","1">>)
bTwoEquals == sSTATUS \o <<";">> \o <<"M","V","=","1","=","2",";">>
bNoEquals == sSTATUS \o <<";">> \o <<"M","V",";">>
bIdleAt == sSTATUS \o <<";">> \o Field(<<"T","I","M","E">>, <<"9">>) \o Field(sSTATE, sIDLE)
bNoName == <<";">> \o Field(sSTATE, sIDLE)

bStatusNoMV == sSTATUS \o <<";">> \o Field(sTIME, <<"3","0","0">>)
                   \o Field(sMA, <<"-","1","1",".","1">>)

DevicePayloads ==
    {bStarted, bStopped, bTestBare, bTestIdle, bStatus1, bStatus2, bIdle,
     bIdleAt, bIdIdle, bIdReply, bTwoEquals, bNoEquals, bNoName, bStatusNoMV}

\* (duration, rate) arguments of run_test
TestParams == {<<30, 100>>, <<5, 1000>>}

(***************************************************************************)
(* The test session: run_test over udp_client (rocket_lab/networking.py).  *)
(*                                                                         *)
(* pc: "IDLE"      the generator is created, nothing has run               *)
(*     "ACTIVE"    the start command is sent; the loop is receiving or     *)
(*                 suspended at its yield.  With sock = "closed" the       *)
(*                 generator was closed by its caller while suspended      *)
(*     "COMPLETE"  run_test returned on STATE=IDLE                         *)
(*     "TIMED_OUT" sock.recv raised TimeoutError                           *)
(*     "REFUSED"   sock.recv raised ConnectionRefusedError                 *)
(*     "ERROR"     DeviceMessage.from_bytes raised ValueError              *)
(***************************************************************************)
\* The start command with RATE before DURATION
StartMessageRateFirst(d, r) ==
    to_bytes(DeviceMessage(sTEST, << <<sCMD, sSTART>>,
                                     <<sRATE, StrInt(r)>>,
                                     <<sDURATION, StrInt(d)>> >>))

\* The start command run_test builds and encodes
StartMessage(d, r) ==
    to_bytes(DeviceMessage(sTEST, << <<sCMD, sSTART>>,
                                     <<sDURATION, StrInt(d)>>,
                                     <<sRATE, StrInt(r)>> >>))

\* Dispatch that consumes only the acknowledgment RESULT=STARTED: any other
\* TEST message falls through to the checks below
DispatchSkipsStartedOnly(datum) ==
    IF datum.name = sTEST /\ HasKey(datum.data, sRESULT)
       /\ Get(datum.data, sRESULT) = sSTARTED
    THEN "continue"
    ELSE IF HasKey(datum.data, sSTATE) /\ Get(datum.data, sSTATE) = sIDLE
    THEN "return"
    ELSE "yield"

\* Dispatch that consumes every message but STATUS as it consumes TEST
DispatchYieldsStatusOnly(datum) ==
    IF datum.name # sSTATUS THEN "continue"
    ELSE IF HasKey(datum.data, sSTATE) /\ Get(datum.data, sSTATE) = sIDLE
    THEN "return"
    ELSE "yield"

\* Dispatch without the exit on STATE=IDLE: the idle message is yielded
DispatchYieldsIdle(datum) == IF datum.name = sTEST THEN "continue" ELSE "yield"

\* Dispatch that looks for STATE=IDLE before it looks at the name
DispatchIdleFirst(datum) ==
    IF HasKey(datum.data, sSTATE) /\ Get(datum.data, sSTATE) = sIDLE THEN "return"
    ELSE IF datum.name = sTEST THEN "continue"
    ELSE "yield"

\* Dispatch that converts with StatusData.from_message before it yields and
\* raises for a message that does not convert
DispatchRejectsNonTelemetry(datum) ==
    IF datum.name = sTEST THEN "continue"
    ELSE IF HasKey(datum.data, sSTATE) /\ Get(datum.data, sSTATE) = sIDLE
    THEN "return"
    ELSE IF from_message(datum).ok THEN "yield"
    ELSE "raise"

\* What the body of run_test's loop does with a decoded message
Dispatch(datum) ==
    IF datum.name = sTEST THEN "continue"
    ELSE IF HasKey(datum.data, sSTATE) /\ Get(datum.data, sSTATE) = sIDLE
    THEN "return"
    ELSE "yield"

\* run_test(address, port, duration, rate, timeout) up to udp_client's first
\* recv: build the start command, connect, settimeout, send
Start ==
    /\ pc = "IDLE"
    /\ \E p \in TestParams :
          /\ duration' = p[1]
          /\ rate' = p[2]
          /\ sent' = Append(sent, StartMessage(p[1], p[2]))
    /\ sock' = "open"
    /\ pc' = "ACTIVE"
    /\ UNCHANGED <<raw, rcvd, yielded, raised>>
    /\ UNCHANGED <<dvars, cvars, ovars, avars, pvars>>

\* One iteration of a loop that leaves the socket as it is when run_test
\* returns or raises: the udp_client generator is not finalised
IterateLeavesOpen(d, log) ==
    LET parsed == from_bytes(d)
        todo == IF parsed.ok THEN Dispatch(parsed.message) ELSE "raise"
    IN  /\ raw' = d
        /\ rcvd' = IF log THEN Append(rcvd, d) ELSE rcvd
        /\ pc' = CASE todo = "raise" -> "ERROR"
                   [] todo = "return" -> "COMPLETE"
                   [] OTHER -> "ACTIVE"
        /\ raised' = IF todo = "raise" THEN parsed.error ELSE raised
        /\ yielded' = IF todo = "yield" /\ log
                      THEN Append(yielded, parsed.message) ELSE yielded
        /\ UNCHANGED <<sock, duration, rate, sent>>
        /\ UNCHANGED <<dvars, cvars, ovars, avars, pvars>>

\* One iteration of a loop that yields only once the acknowledgment TEST
\* message with RESULT=STARTED is in the history: a message that arrives
\* earlier is dropped
IterateAfterStarted(d, log) ==
    LET parsed == from_bytes(d)
        started == \E i \in 1..Len(rcvd) :
                      /\ from_bytes(rcvd[i]).ok
                      /\ from_bytes(rcvd[i]).message.name = sTEST
                      /\ <<sRESULT, sSTARTED>>
                            \in Range(from_bytes(rcvd[i]).message.data)
        todo == IF ~parsed.ok THEN "raise"
                ELSE IF Dispatch(parsed.message) = "yield" /\ ~started
                THEN "continue"
                ELSE Dispatch(parsed.message)
    IN  /\ raw' = d
        /\ rcvd' = IF log THEN Append(rcvd, d) ELSE rcvd
        /\ pc' = CASE todo = "raise" -> "ERROR"
                   [] todo = "return" -> "COMPLETE"
                   [] OTHER -> "ACTIVE"
        /\ raised' = IF todo = "raise" THEN parsed.error ELSE raised
        /\ yielded' = IF todo = "yield" /\ log
                      THEN Append(yielded, parsed.message) ELSE yielded
        /\ sock' = IF todo \in {"raise", "return"} THEN "closed" ELSE sock
        /\ UNCHANGED <<duration, rate, sent>>
        /\ UNCHANGED <<dvars, cvars, ovars, avars, pvars>>

\* One iteration of run_test's loop on the datagram d that sock.recv
\* returned; `log` tells whether the histories record it.  When run_test
\* returns or raises, its frame is cleared: the udp_client generator it
\* iterated, suspended at its yield, is finalised and the with block closes
\* the socket before the caller sees StopIteration or the exception.
Iterate(d, log) ==
    LET parsed == from_bytes(d)
        todo == IF parsed.ok THEN Dispatch(parsed.message) ELSE "raise"
    IN  /\ raw' = d
        /\ rcvd' = IF log THEN Append(rcvd, d) ELSE rcvd
        /\ pc' = CASE todo = "raise" -> "ERROR"
                   [] todo = "return" -> "COMPLETE"
                   [] OTHER -> "ACTIVE"
        /\ raised' = IF todo = "raise" THEN parsed.error ELSE raised
        /\ yielded' = IF todo = "yield" /\ log
                      THEN Append(yielded, parsed.message) ELSE yielded
        /\ sock' = IF todo \in {"raise", "return"} THEN "closed" ELSE sock
        /\ UNCHANGED <<duration, rate, sent>>
        /\ UNCHANGED <<dvars, cvars, ovars, avars, pvars>>

\* sock.recv returns a datagram of the device
Recv ==
    /\ pc = "ACTIVE"
    /\ sock = "open"
    /\ Len(rcvd) < MaxRecv
    /\ \E d \in DevicePayloads : Iterate(d, TRUE)

\* sock.recv returns a datagram of a device that may send for ever; the
\* histories hold the first MaxStreamLog datagrams only
RecvStream ==
    /\ pc = "ACTIVE"
    /\ sock = "open"
    /\ \E d \in DevicePayloads : Iterate(d, Len(rcvd) < MaxStreamLog)

\* A timeout that closes the socket but is swallowed: the generator does
\* not end
TimeoutSwallowed ==
    /\ pc = "ACTIVE"
    /\ sock = "open"
    /\ sock' = "closed"
    /\ UNCHANGED <<pc, duration, rate, sent, raw, rcvd, yielded, raised>>
    /\ UNCHANGED <<dvars, cvars, ovars, avars, pvars>>

\* A timeout that is answered by sending the start command again and
\* receiving on
TimeoutResends ==
    /\ pc = "ACTIVE"
    /\ sock = "open"
    /\ Len(sent) < 2
    /\ sent' = Append(sent, StartMessage(duration, rate))
    /\ UNCHANGED <<pc, sock, duration, rate, raw, rcvd, yielded, raised>>
    /\ UNCHANGED <<dvars, cvars, ovars, avars, pvars>>

\* sock.recv raises TimeoutError inside udp_client's with block: the socket
\* is closed and the exception leaves run_test
Timeout ==
    /\ pc = "ACTIVE"
    /\ sock = "open"
    /\ pc' = "TIMED_OUT"
    /\ raised' = Error("TimeoutError", "timed out", <<>>)
    /\ sock' = "closed"
    /\ UNCHANGED <<duration, rate, sent, raw, rcvd, yielded>>
    /\ UNCHANGED <<dvars, cvars, ovars, avars, pvars>>

\* sock.recv raises ConnectionRefusedError (ICMP port unreachable)
Refused ==
    /\ pc = "ACTIVE"
    /\ sock = "open"
    /\ rcvd = <<>>
    /\ pc' = "REFUSED"
    /\ raised' = Error("ConnectionRefusedError", "Connection refused", <<>>)
    /\ sock' = "closed"
    /\ UNCHANGED <<duration, rate, sent, raw, rcvd, yielded>>
    /\ UNCHANGED <<dvars, cvars, ovars, avars, pvars>>

\* The caller stops iterating while run_test is suspended at its yield
\* (it closes the generator, or leaves its loop and drops it): the
\* generator is finalised, GeneratorExit leaves run_test at `yield datum`
\* and udp_client at `yield data`, and the with block closes the socket.
\* run_test raises nothing and receives nothing more.
Close ==
    /\ pc = "ACTIVE"
    /\ sock = "open"
    /\ from_bytes(raw).ok
    /\ Dispatch(from_bytes(raw).message) = "yield"
    /\ sock' = "closed"
    /\ UNCHANGED <<pc, duration, rate, sent, raw, rcvd, yielded, raised>>
    /\ UNCHANGED <<dvars, cvars, ovars, avars, pvars>>

SessionInit ==
    /\ pc = "IDLE"
    /\ sock = "none"
    /\ duration = 0
    /\ rate = 0
    /\ sent = <<>>
    /\ raw = <<>>
    /\ rcvd = <<>>
    /\ yielded = <<>>
    /\ raised = NoError

DiscoveryInit ==
    /\ dpc = "IDLE"
    /\ dsock = "none"
    /\ dsent = <<>>
    /\ datagrams = <<>>
    /\ devices = <<>>
    /\ draised = NoError
    /\ drcvd = <<>>
    /\ dlast = <<>>

\* No codec run has started
CodecIdle ==
    /\ cpc = "IDLE"
    /\ input = <<>>
    /\ decoded = NoDecode
    /\ wire = <<>>
    /\ redecoded = NoDecode
    /\ status = NoStatus

\* No ordering run has started
OrderIdle ==
    /\ opc = "IDLE"
    /\ recs = <<>>
    /\ compared = NoComparison
    /\ ordered = <<>>

\* No argument has been converted
ArgIdle ==
    /\ apc = "IDLE"
    /\ argument = <<>>
    /\ converted = NoAddress

\* The two sessions of a concurrent run: session s talks to device Peer(s)
Sessions == {"S1", "S2"}
Devices == {"D1", "D2"}
Peer(s) == IF s = "S1" THEN "D1" ELSE "D2"

\* No concurrent session has started and no device has sent anything
PairIdle ==
    /\ pair = [s \in Sessions |->
                 [pc |-> "IDLE", sock |-> "none", sent |-> <<>>,
                  read |-> [d \in Devices |-> 0],
                  yielded |-> <<>>, raised |-> NoError]]
    /\ chan = [l \in Devices \X Sessions |-> <<>>]

Init ==
    SessionInit /\ DiscoveryInit /\ CodecIdle /\ OrderIdle /\ ArgIdle /\ PairIdle

\* A session with a device that sends at most MaxRecv datagrams
Next == Start \/ Recv \/ Timeout \/ Refused \/ Close

Spec == Init /\ [][Next]_vars

\* A session with a device that may send for ever, the caller iterating for
\* as long as the generator can run
StreamNext == Start \/ RecvStream \/ Timeout \/ Refused

StreamSpec == Init /\ [][StreamNext]_vars /\ WF_vars(StreamNext)

(***************************************************************************)
(* Discovery: udp_multicast_client (rocket_lab/udp.py) and then            *)
(* DiscoveryData.from_datagrams on the list it returns.                    *)
(*                                                                         *)
(* dpc: "IDLE"      nothing has run                                        *)
(*      "COLLECT"   the probe is sent, the receive loop is running         *)
(*      "RETURNED"  udp_multicast_client returned its list                 *)
(*      "DONE"      from_datagrams returned its list                       *)
(*      "RAISED"    an exception left from_datagrams                       *)
(***************************************************************************)
\* The discovery probe
bProbe == sID \o <<";">>

bId1 == sID \o <<";">> \o Field(sMODEL, <<"M","1">>) \o Field(sSERIAL, <<"S","1">>)
bId2 == sID \o <<";">> \o Field(sMODEL, <<"M","2">>) \o Field(sSERIAL, <<"S","2">>)
bIdNoSerial == sID \o <<";">> \o Field(sMODEL, <<"M","1">>)
bIdNoModel == sID \o <<";">> \o Field(sSERIAL, <<"S","1">>)
bStatusId == sSTATUS \o <<";">> \o Field(sMODEL, <<"M","3">>) \o Field(sSERIAL, <<"S","3">>)
bIdTwoEquals == sID \o <<";">> \o <<"M","O","D","E","L","=","M","1","=","M","2",";">>
                    \o Field(sSERIAL, <<"S","1">>)

\* Payloads of the responses to a probe
ResponsePayloads ==
    {bId1, bId2, bIdNoSerial, bIdNoModel, bStatusId, bIdTwoEquals}

\* (address, port) of the responders
Responders == {<<"192.168.0.10", 6062>>, <<"192.168.0.11", 6063>>}

\* udp_multicast_client up to its first recvfrom: set the TTL and the
\* timeout, send the probe
McastSend ==
    /\ dpc = "IDLE"
    /\ dsock' = "open"
    /\ dsent' = Append(dsent, bProbe)
    /\ datagrams' = <<>>
    /\ dpc' = "COLLECT"
    /\ UNCHANGED <<devices, draised, drcvd, dlast>>
    /\ UNCHANGED <<svars, cvars, ovars, avars, pvars>>

\* A receive loop that keeps the latest response only
McastRecvKeepsLast ==
    /\ dpc = "COLLECT"
    /\ Len(drcvd) < MaxResponses
    /\ \E from \in Responders, data \in ResponsePayloads :
          /\ dlast' = <<data, from>>
          /\ drcvd' = Append(drcvd, <<data, from>>)
          /\ datagrams' = <<Datagram(from[1], from[2], data)>>
    /\ UNCHANGED <<dpc, dsock, dsent, devices, draised>>
    /\ UNCHANGED <<svars, cvars, ovars, avars, pvars>>

\* sock.recvfrom returns a response: it is appended to the list
McastRecv ==
    /\ dpc = "COLLECT"
    /\ Len(datagrams) < MaxResponses
    /\ \E from \in Responders, data \in ResponsePayloads :
          /\ dlast' = <<data, from>>
          /\ drcvd' = Append(drcvd, <<data, from>>)
          /\ datagrams' = Append(datagrams, Datagram(from[1], from[2], data))
    /\ UNCHANGED <<dpc, dsock, dsent, devices, draised>>
    /\ UNCHANGED <<svars, cvars, ovars, avars, pvars>>

\* sock.recvfrom returns a response of responders that may send for ever;
\* the list and the history hold the first MaxMcastLog responses only
McastRecvStream ==
    /\ dpc = "COLLECT"
    /\ \E from \in Responders, data \in ResponsePayloads :
          /\ dlast' = <<data, from>>
          /\ IF Len(drcvd) < MaxMcastLog
             THEN /\ drcvd' = Append(drcvd, <<data, from>>)
                  /\ datagrams' = Append(datagrams, Datagram(from[1], from[2], data))
             ELSE UNCHANGED <<drcvd, datagrams>>
    /\ UNCHANGED <<dpc, dsock, dsent, devices, draised>>
    /\ UNCHANGED <<svars, cvars, ovars, avars, pvars>>

\* sock.recvfrom raises TimeoutError: it is caught, the with block closes
\* the socket and the list is returned
McastTimeout ==
    /\ dpc = "COLLECT"
    /\ dsock' = "closed"
    /\ dpc' = "RETURNED"
    /\ UNCHANGED <<dsent, datagrams, devices, draised, drcvd, dlast>>
    /\ UNCHANGED <<svars, cvars, ovars, avars, pvars>>

\* DiscoveryData.from_datagrams on the returned list
FromDatagrams ==
    /\ dpc = "RETURNED"
    /\ LET result == from_datagrams(datagrams) IN
          /\ devices' = result.devices
          /\ draised' = result.error
          /\ dpc' = IF result.error = NoError THEN "DONE" ELSE "RAISED"
    /\ UNCHANGED <<dsock, dsent, datagrams, drcvd, dlast>>
    /\ UNCHANGED <<svars, cvars, ovars, avars, pvars>>

DiscoveryNext == McastSend \/ McastRecv \/ McastTimeout \/ FromDatagrams

DiscoverySpec == Init /\ [][DiscoveryNext]_vars

\* udp_multicast_client with responders that may send for ever, the call
\* running for as long as it can
DiscoveryStreamNext == McastSend \/ McastRecvStream \/ McastTimeout

DiscoveryStreamSpec ==
    Init /\ [][DiscoveryStreamNext]_vars /\ WF_vars(DiscoveryStreamNext)

\* Most datagrams a session and a discovery call receive when they run side
\* by side
MaxBoth == 1

\* What the device sends when a session and a discovery call run side by
\* side: an acknowledgment, a status message, the idle message and a
\* malformed datagram
BothPayloads == {bStarted, bStatusNoMV, bIdle, bTwoEquals}

\* The responses to the probe when they run side by side: a well-formed and
\* a malformed one
BothResponses == {bId1, bIdTwoEquals} \X Responders

\* A test session and a discovery call, each on its own socket, run side by
\* side
BothNext ==
    \/ Next /\ Len(rcvd') <= MaxBoth /\ raw' \in {<<>>} \cup BothPayloads
    \/ /\ DiscoveryNext
       /\ Len(datagrams') <= MaxBoth
       /\ dlast' \in {<<>>} \cup BothResponses

BothSpec == Init /\ [][BothNext]_vars

(***************************************************************************)
(* The codec: DeviceMessage.from_bytes on a byte string, then to_bytes and *)
(* from_bytes again on what it decoded, or StatusData.from_message on it.  *)
(*                                                                         *)
(* cpc: "IDLE"       no codec run                                          *)
(*      "INPUT"      a byte string is given                                *)
(*      "DECODED"    from_bytes returned a message                         *)
(*      "FAILED"     from_bytes raised                                     *)
(*      "ENCODED"    to_bytes returned                                     *)
(*      "REDECODED"  from_bytes ran on the encoded message                 *)
(*      "CONVERTED"  StatusData.from_message returned or raised            *)
(***************************************************************************)
\* longest byte string enumerated over CodecAlphabet
MaxInputLen == 5

CodecAlphabet == {"A", "1", ";", "="}

\* Every byte string over CodecAlphabet of at most MaxInputLen bytes
BoundedBytes == UNION {[1..n -> CodecAlphabet] : n \in 0..MaxInputLen}

bDupKey == sID \o <<";">> \o Field(<<"K">>, <<"1">>) \o Field(<<"K">>, <<"2">>)
bIdBare == sID
bEmptySegments == sID \o <<";", ";">> \o Field(sMODEL, <<"M","1">>) \o <<";">>
bStatusNoTime == sSTATUS \o <<";">> \o Field(sMV, <<"5">>) \o Field(sMA, <<"7">>)
bStatusBadMV == sSTATUS \o <<";">> \o Field(sTIME, <<"3","0","0">>)
                    \o Field(sMV, <<"b","a","n","a","n","a">>)
                    \o Field(sMA, <<"-","1","1",".","1">>)
bStatusBadMANoMV == sSTATUS \o <<";">> \o Field(sTIME, <<"3","0","0">>)
                        \o Field(sMA, <<"x">>)
bStatusBadTime == sSTATUS \o <<";">> \o Field(sTIME, <<"1",".","2",".","3">>)
                      \o Field(sMV, <<"5">>) \o Field(sMA, <<"7">>)
bStatusFraction == sSTATUS \o <<";">> \o Field(sTIME, <<"1","5","0","0">>)
                       \o Field(sMV, <<"+","0",".","5","0">>) \o Field(sMA, <<"-","0">>)
\* "E9" stands for the byte 0xE9 and for the character of that code point
bLatin1 == sID \o <<";">> \o Field(<<"N">>, <<"E9">>)
bTestNumbers == sTEST \o <<";">> \o Field(sTIME, <<"1">>) \o Field(sMV, <<"2">>)
                    \o Field(sMA, <<"3">>)

CodecPayloads ==
    {bDupKey, bIdBare, bEmptySegments, bStatusNoMV, bStatusNoTime, bStatusBadMV,
     bStatusBadMANoMV, bStatusBadTime, bStatusFraction, bTestNumbers, bLatin1,
     bProbe}

\* The byte strings given to from_bytes
CodecInputs == BoundedBytes \cup DevicePayloads \cup ResponsePayloads \cup CodecPayloads

\* DeviceMessage.from_bytes(input)
Decode ==
    /\ cpc = "INPUT"
    /\ decoded' = from_bytes(input)
    /\ cpc' = IF decoded'.ok THEN "DECODED" ELSE "FAILED"
    /\ UNCHANGED <<input, wire, redecoded, status>>
    /\ UNCHANGED <<svars, dvars, ovars, avars, pvars>>

\* message.to_bytes() on the decoded message
Encode ==
    /\ cpc = "DECODED"
    /\ wire' = to_bytes(decoded.message)
    /\ cpc' = "ENCODED"
    /\ UNCHANGED <<input, decoded, redecoded, status>>
    /\ UNCHANGED <<svars, dvars, ovars, avars, pvars>>

\* DeviceMessage.from_bytes on the bytes to_bytes returned
Redecode ==
    /\ cpc = "ENCODED"
    /\ redecoded' = from_bytes(wire)
    /\ cpc' = "REDECODED"
    /\ UNCHANGED <<input, decoded, wire, status>>
    /\ UNCHANGED <<svars, dvars, ovars, avars, pvars>>

\* StatusData.from_message on the decoded message
FromMessage ==
    /\ cpc = "DECODED"
    /\ status' = from_message(decoded.message)
    /\ cpc' = "CONVERTED"
    /\ UNCHANGED <<input, decoded, wire, redecoded>>
    /\ UNCHANGED <<svars, dvars, ovars, avars, pvars>>

CodecInit ==
    /\ SessionInit /\ DiscoveryInit /\ OrderIdle /\ ArgIdle /\ PairIdle
    /\ cpc = "INPUT"
    /\ input \in CodecInputs
    /\ decoded = NoDecode
    /\ wire = <<>>
    /\ redecoded = NoDecode
    /\ status = NoStatus

CodecNext == Decode \/ Encode \/ Redecode \/ FromMessage

CodecSpec == CodecInit /\ [][CodecNext]_vars

(***************************************************************************)
(* Ordering: the comparison operators on two DiscoveryData records and     *)
(* list.sort() on a list of them.                                          *)
(*                                                                         *)
(* opc: "IDLE"      no ordering run                                        *)
(*      "INPUT"     a list of records is given                             *)
(*      "COMPARED"  recs[1] and recs[2] were compared                      *)
(*      "SORTED"    the list was sorted                                    *)
(***************************************************************************)
\* longest list of records sorted
MaxSortLen == 3

Models == {<<"M","1">>, <<"M","1","0">>, <<"M","2">>}

Serials == {<<"S","N","1">>, <<"S","N","2">>}

\* Records as from_datagram makes them of the responders' datagrams
Records ==
    {DiscoveryData(from[1], from[2], model, serial) :
        from \in Responders, model \in Models, serial \in Serials}

RecordLists == UNION {[1..n -> Records] : n \in 0..MaxSortLen}

\* recs[1] < recs[2], <=, >, >=, == and the same with the operands swapped
Compare ==
    /\ opc = "INPUT"
    /\ Len(recs) >= 2
    /\ compared' = [ab |-> Comparison(recs[1], recs[2]),
                    ba |-> Comparison(recs[2], recs[1])]
    /\ opc' = "COMPARED"
    /\ UNCHANGED <<recs, ordered>>
    /\ UNCHANGED <<svars, dvars, cvars, avars, pvars>>

\* recs.sort()
Sort ==
    /\ opc = "INPUT"
    /\ ordered' = list_sort(recs)
    /\ opc' = "SORTED"
    /\ UNCHANGED <<recs, compared>>
    /\ UNCHANGED <<svars, dvars, cvars, avars, pvars>>

OrderInit ==
    /\ SessionInit /\ DiscoveryInit /\ CodecIdle /\ ArgIdle /\ PairIdle
    /\ opc = "INPUT"
    /\ recs \in RecordLists
    /\ compared = NoComparison
    /\ ordered = <<>>

OrderNext == Compare \/ Sort

OrderSpec == OrderInit /\ [][OrderNext]_vars

(***************************************************************************)
(* Claims about the test session.                                          *)
(***************************************************************************)
Last(s) == s[Len(s)]

\* The step received a datagram that the histories record
Received == Len(rcvd') = Len(rcvd) + 1

\* b decodes to a message of the given name
Named(b, name) == from_bytes(b).ok /\ from_bytes(b).message.name = name

\* b decodes to a message that carries STATE=IDLE
CarriesIdle(b) ==
    /\ from_bytes(b).ok
    /\ \E i \in 1..Len(from_bytes(b).message.data) :
          from_bytes(b).message.data[i] = <<sSTATE, sIDLE>>

\* C1: when no datagram arrives within the timeout before completion, the
\* sample sequence ends and no error is raised to the caller of run_test.
C1_TimeoutRaisesNothing == pc = "TIMED_OUT" => raised = NoError

\* C2: a STATUS message containing STATE=IDLE ends the sequence successfully:
\* the step that receives it completes the session, yields nothing and raises
\* nothing, and a completed session receives and yields nothing more.
C2_IdleCompletes ==
    [][/\ (Received /\ Named(Last(rcvd'), sSTATUS) /\ CarriesIdle(Last(rcvd')))
            => (pc' = "COMPLETE" /\ yielded' = yielded /\ raised' = NoError)
       /\ pc = "COMPLETE"
            => (pc' = "COMPLETE" /\ yielded' = yielded /\ rcvd' = rcvd
                /\ raised' = NoError)]_vars

\* C2 witness: a session completed by STATUS;STATE=IDLE; after it yielded
C2_Witness ==
    /\ pc = "COMPLETE"
    /\ Last(rcvd) = bIdle
    /\ yielded # <<>>
    /\ raised = NoError

\* The datagrams of h before the first one that satisfies Stop
Before(h, Stop(_)) ==
    IF \E i \in 1..Len(h) : Stop(h[i])
    THEN SubSeq(h, 1, (CHOOSE i \in 1..Len(h) :
                          Stop(h[i]) /\ \A j \in 1..(i - 1) : ~Stop(h[j])) - 1)
    ELSE h

\* The decoded messages of the datagrams of h
Messages(h) == [i \in 1..Len(h) |-> from_bytes(h[i]).message]

IsStatusIdle(b) == Named(b, sSTATUS) /\ CarriesIdle(b)

IsTelemetry(b) == Named(b, sSTATUS) /\ ~CarriesIdle(b)

IsNotTest(b) == from_bytes(b).ok /\ ~Named(b, sTEST)

\* The datagrams on which run_test stops without yielding
EndsSession(b) == ~from_bytes(b).ok \/ (IsNotTest(b) /\ CarriesIdle(b))

\* C3, as stated: the items yielded are exactly the STATUS telemetry messages
\* received before the first STATE=IDLE message, one per datagram, in arrival
\* order.
C3_YieldsStatusBeforeIdle ==
    yielded = Messages(SelectSeq(Before(rcvd, IsStatusIdle), IsTelemetry))

\* C3, amended: the items yielded are exactly the decoded messages of every
\* name but TEST received before the first datagram that does not decode or
\* that is a message, of any name but TEST, carrying STATE=IDLE; one item per
\* such datagram, in arrival order.
C3_YieldsNonTestBeforeEnd ==
    yielded = Messages(SelectSeq(Before(rcvd, EndsSession), IsNotTest))

\* C3 witness: acknowledgment, two different samples yielded in arrival order
C3_Witness ==
    /\ rcvd = <<bStarted, bStatus2, bStatus1>>
    /\ yielded = Messages(<<bStatus2, bStatus1>>)
    /\ pc = "ACTIVE"

\* C4: no message named TEST is yielded, whatever its fields, and receiving
\* one leaves the session running: nothing is yielded, raised or ended by it.
C4_TestConsumed ==
    [][/\ (Received /\ Named(Last(rcvd'), sTEST))
            => (pc' = "ACTIVE" /\ yielded' = yielded /\ raised' = NoError)
       /\ \A i \in 1..Len(yielded') : yielded'[i].name # sTEST]_vars

\* C4 witness: TEST messages with STATE=IDLE, RESULT=STOPPED and no fields
\* were received and the session still runs
C4_Witness ==
    /\ rcvd = <<bTestIdle, bStopped, bTestBare>>
    /\ pc = "ACTIVE"
    /\ yielded = <<>>

\* The wire form of the start command for the arguments of the session
WireStart ==
    IF <<duration, rate>> = <<30, 100>>
    THEN <<"T","E","S","T",";","C","M","D","=","S","T","A","R","T",";",
           "D","U","R","A","T","I","O","N","=","3","0",";",
           "R","A","T","E","=","1","0","0",";">>
    ELSE <<"T","E","S","T",";","C","M","D","=","S","T","A","R","T",";",
           "D","U","R","A","T","I","O","N","=","5",";",
           "R","A","T","E","=","1","0","0","0",";">>

\* C5: the first action of a session, before any datagram is received, is to
\* send TEST;CMD=START;DURATION=<duration>;RATE=<rate>; and nothing else is
\* sent.
C5_StartCommandFirst ==
    /\ pc = "IDLE" => (sent = <<>> /\ rcvd = <<>>)
    /\ pc # "IDLE" => sent = <<WireStart>>

\* C5 witness: the start command for duration 5, rate 1000 is sent and
\* nothing is received yet
C5_Witness ==
    /\ pc = "ACTIVE"
    /\ rcvd = <<>>
    /\ <<duration, rate>> = <<5, 1000>>
    /\ Len(sent) = 1

\* Number of "=" in a segment
CountEquals(part) == Cardinality({i \in 1..Len(part) : part[i] = "="})

\* Some non-empty segment of b after the name has not exactly one "="
BadSegment(b) ==
    \E i \in 2..Len(Split(b, ";")) :
        Split(b, ";")[i] # <<>> /\ CountEquals(Split(b, ";")[i]) # 1

\* The name segment of b is empty
EmptyName(b) == Split(b, ";")[1] = <<>>

\* C6, as stated: a datagram that fails to decode (empty name, or a segment
\* without exactly one "=") ends the session in ERROR, nothing more is yielded,
\* and the error delivered to the caller retains the offending raw bytes.
C6_DecodeErrorKeepsBytes ==
    [][/\ (Received /\ (EmptyName(Last(rcvd')) \/ BadSegment(Last(rcvd'))))
            => /\ pc' = "ERROR"
               /\ yielded' = yielded
               /\ raised'.type = "ValueError"
               /\ Last(rcvd') \in Range(raised'.args)
       /\ pc = "ERROR"
            => (pc' = "ERROR" /\ yielded' = yielded /\ raised' = raised)]_vars

\* C6, amended: a datagram that fails to decode ends the session in ERROR
\* with a ValueError and nothing more is yielded; the error retains the
\* offending raw bytes when a segment has not exactly one "=", and is the bare
\* "Empty message", without the bytes, when only the name is empty.
C6_DecodeErrorEndsSession ==
    [][/\ (Received /\ (EmptyName(Last(rcvd')) \/ BadSegment(Last(rcvd'))))
            => /\ pc' = "ERROR"
               /\ yielded' = yielded
               /\ raised'.type = "ValueError"
               /\ BadSegment(Last(rcvd')) => Last(rcvd') \in Range(raised'.args)
               /\ ~BadSegment(Last(rcvd'))
                    => (raised'.text = "Empty message" /\ raised'.args = <<>>)
       /\ pc = "ERROR"
            => (pc' = "ERROR" /\ yielded' = yielded /\ raised' = raised)]_vars

\* C6 witness: a segment with two "=" ended a session that had yielded, and
\* the error holds the datagram
C6_Witness ==
    /\ pc = "ERROR"
    /\ Last(rcvd) = bTwoEquals
    /\ yielded # <<>>
    /\ bTwoEquals \in Range(raised.args)

\* The session is over
Terminated == pc \in {"COMPLETE", "TIMED_OUT", "ERROR", "REFUSED"}

\* C7, as stated: for every device behaviour the session eventually reaches a
\* terminal state and stops yielding.
C7_AlwaysTerminates == <>Terminated

\* C7, amended: a session reaches a terminal state unless the device keeps
\* sending datagrams for ever; each wait for a datagram is bounded by the
\* timeout, the sequence of datagrams is not.
C7_TerminatesUnlessStreaming == ([]<><<RecvStream>>_vars) \/ <>Terminated

\* C7 witness: a session that timed out after more datagrams than the
\* histories hold
C7_Witness ==
    /\ pc = "TIMED_OUT"
    /\ Len(rcvd) = MaxStreamLog
    /\ raw # Last(rcvd)

(***************************************************************************)
(* Claims about discovery.                                                 *)
(***************************************************************************)
\* The payload decodes to a message with both MODEL and SERIAL
HasModelAndSerial(dg) ==
    /\ from_bytes(dg.data).ok
    /\ \E i \in 1..Len(from_bytes(dg.data).message.data) :
          from_bytes(dg.data).message.data[i][1] = sMODEL
    /\ \E i \in 1..Len(from_bytes(dg.data).message.data) :
          from_bytes(dg.data).message.data[i][1] = sSERIAL

\* The payload is an ID message with both MODEL and SERIAL
IsIdResponse(dg) == Named(dg.data, sID) /\ HasModelAndSerial(dg)

\* The record a response with MODEL and SERIAL stands for
RecordOf(dg) ==
    CASE dg.data = bId1 -> DiscoveryData(dg.address, dg.port, <<"M","1">>, <<"S","1">>)
      [] dg.data = bId2 -> DiscoveryData(dg.address, dg.port, <<"M","2">>, <<"S","2">>)
      [] dg.data = bStatusId ->
             DiscoveryData(dg.address, dg.port, <<"M","3">>, <<"S","3">>)

RecordsOf(dgs) == [i \in 1..Len(dgs) |-> RecordOf(dgs[i])]

\* from_datagrams has run on the collected list
Parsed == dpc \in {"DONE", "RAISED"}

\* C8: discovery is best-effort per datagram: a datagram that fails to decode
\* or lacks MODEL or SERIAL is dropped without raising, and the records of all
\* the other datagrams are returned.
C8_BestEffort ==
    Parsed => /\ draised = NoError
              /\ devices = RecordsOf(SelectSeq(datagrams, HasModelAndSerial))

\* C9, as stated: a record is produced only from a datagram whose decoded
\* message is named ID and contains MODEL and SERIAL; a message of any other
\* name produces no record.
C9_RecordsOnlyFromId ==
    Parsed => \A i \in 1..Len(devices) :
                 \E j \in 1..Len(datagrams) :
                    IsIdResponse(datagrams[j]) /\ devices[i] = RecordOf(datagrams[j])

\* C9, amended: a record is produced only from a datagram whose decoded
\* message contains MODEL and SERIAL, whatever the name of the message: when
\* from_datagrams returns, its records are those of exactly these datagrams,
\* and when it raises there are none.
C9_RecordsOnlyWithModelAndSerial ==
    /\ dpc = "DONE" => devices = RecordsOf(SelectSeq(datagrams, HasModelAndSerial))
    /\ dpc = "RAISED" => devices = <<>>

\* C9 witness: a STATUS message with MODEL and SERIAL gave a record, an ID
\* message without SERIAL gave none
C9_Witness ==
    /\ dpc = "DONE"
    /\ Len(datagrams) = 2
    /\ datagrams[1].data = bIdNoSerial
    /\ datagrams[2].data = bStatusId
    /\ devices = <<RecordOf(datagrams[2])>>

\* C10: for a list of valid discovery datagrams from_datagrams returns one
\* record per datagram, in the order of the list, each with the source address
\* and port of its datagram and the MODEL and SERIAL of its payload; identical
\* responses are not merged.
C10_OneRecordPerDatagram ==
    (Parsed /\ \A j \in 1..Len(datagrams) : IsIdResponse(datagrams[j]))
        => /\ dpc = "DONE"
           /\ Len(devices) = Len(datagrams)
           /\ \A i \in 1..Len(devices) : devices[i] = RecordOf(datagrams[i])

\* C10 witness: three valid responses, the first two identical, gave three
\* records
C10_Witness ==
    /\ dpc = "DONE"
    /\ Len(datagrams) = MaxResponses
    /\ \A j \in 1..Len(datagrams) : IsIdResponse(datagrams[j])
    /\ datagrams[1] = datagrams[2]
    /\ datagrams[3].data # datagrams[1].data
    /\ datagrams[3].port # datagrams[1].port
    /\ Len(devices) = MaxResponses

(***************************************************************************)
(* The command line: argparse_address_tuple on an argument string.         *)
(*                                                                         *)
(* apc: "IDLE"   no conversion                                             *)
(*      "INPUT"  an argument string is given                               *)
(*      "DONE"   argparse_address_tuple returned or raised                 *)
(***************************************************************************)
\* longest argument string enumerated over ArgAlphabet
MaxArgLen == 4

ArgAlphabet == {":", "1", "0", "b", "-"}

BoundedArgs == UNION {[1..n -> ArgAlphabet] : n \in 0..MaxArgLen}

aLoopback4 == <<"1","2","7",".","0",".","0",".","0",":","6","0","6","0">>
aLoopback6 == <<":",":","1",":","6","0","6","0">>
aNoPort == <<"1","9","2",".","1","6","8",".","0",".","1","0">>
aBadPort == aNoPort \o <<":","b","a","n","a","n","a">>

ArgInputs == BoundedArgs \cup {aLoopback4, aLoopback6, aNoPort, aBadPort}

\* argparse_address_tuple(argument)
ConvertArgument ==
    /\ apc = "INPUT"
    /\ converted' = argparse_address_tuple(argument)
    /\ apc' = "DONE"
    /\ UNCHANGED argument
    /\ UNCHANGED <<svars, dvars, cvars, ovars, pvars>>

ArgInit ==
    /\ SessionInit /\ DiscoveryInit /\ CodecIdle /\ OrderIdle /\ PairIdle
    /\ apc = "INPUT"
    /\ argument \in ArgInputs
    /\ converted = NoAddress

ArgNext == ConvertArgument

ArgSpec == ArgInit /\ [][ArgNext]_vars

(***************************************************************************)
(* Two concurrent sessions: run_test over udp_client called twice, each    *)
(* call against its own device.  Each call creates its own socket and      *)
(* connects it to its device; the calls share no object.  Every device     *)
(* may send to the socket of either session.                               *)
(***************************************************************************)
\* Most datagrams the devices send in a concurrent run
MaxPairSend == 3

\* What a device may send in a concurrent run
PairPayloads == {bStatus1, bStatus2, bIdle, bTwoEquals}

\* (duration, rate) of the start command of each session
PairParams(s) == IF s = "S1" THEN <<30, 100>> ELSE <<5, 1000>>

\* Number of datagrams sent by all devices
PairSent == Len(chan[<<"D1", "S1">>]) + Len(chan[<<"D1", "S2">>])
            + Len(chan[<<"D2", "S1">>]) + Len(chan[<<"D2", "S2">>])

\* A socket that is not connected: sock.recv returns datagrams of any sender
DeliversAny(s, dev) == TRUE

\* sock.connect((address, port)): sock.recv of session s returns only the
\* datagrams its peer has sent
Delivers(s, dev) == dev = Peer(s)

\* Session s is created and runs up to udp_client's first recv: socket,
\* connect, settimeout, send of the start command
PairStart(s) ==
    /\ pair[s].pc = "IDLE"
    /\ pair' = [pair EXCEPT ![s] =
                    [@ EXCEPT !.pc = "ACTIVE", !.sock = "open",
                              !.sent = <<StartMessage(PairParams(s)[1],
                                                      PairParams(s)[2])>>]]
    /\ UNCHANGED chan
    /\ UNCHANGED <<svars, dvars, cvars, ovars, avars>>

\* Device dev sends a datagram to the open socket of session s
DeviceSend(dev, s) ==
    /\ pair[s].sock = "open"
    /\ PairSent < MaxPairSend
    /\ \E d \in PairPayloads :
          chan' = [chan EXCEPT ![<<dev, s>>] = Append(@, d)]
    /\ UNCHANGED pair
    /\ UNCHANGED <<svars, dvars, cvars, ovars, avars>>

\* sock.recv of session s returns the next datagram its socket delivers,
\* and run_test's loop body runs on it
PairRecv(s) ==
    /\ pair[s].pc = "ACTIVE"
    /\ pair[s].sock = "open"
    /\ \E dev \in Devices :
          /\ Delivers(s, dev)
          /\ pair[s].read[dev] < Len(chan[<<dev, s>>])
          /\ LET d == chan[<<dev, s>>][pair[s].read[dev] + 1]
                 parsed == from_bytes(d)
                 todo == IF parsed.ok THEN Dispatch(parsed.message)
                         ELSE "raise"
             IN  pair' = [pair EXCEPT ![s] =
                   [pc |-> CASE todo = "raise" -> "ERROR"
                             [] todo = "return" -> "COMPLETE"
                             [] OTHER -> "ACTIVE",
                    sock |-> IF todo \in {"raise", "return"}
                             THEN "closed" ELSE "open",
                    sent |-> pair[s].sent,
                    read |-> [pair[s].read EXCEPT ![dev] = @ + 1],
                    yielded |-> IF todo = "yield"
                                THEN Append(pair[s].yielded, parsed.message)
                                ELSE pair[s].yielded,
                    raised |-> IF todo = "raise" THEN parsed.error
                               ELSE pair[s].raised]]
    /\ UNCHANGED chan
    /\ UNCHANGED <<svars, dvars, cvars, ovars, avars>>

\* sock.recv of session s raises TimeoutError: nothing its socket delivers
\* has arrived within the timeout
PairTimeout(s) ==
    /\ pair[s].pc = "ACTIVE"
    /\ pair[s].sock = "open"
    /\ \A dev \in Devices :
          Delivers(s, dev) => pair[s].read[dev] = Len(chan[<<dev, s>>])
    /\ pair' = [pair EXCEPT ![s] =
                    [@ EXCEPT !.pc = "TIMED_OUT", !.sock = "closed",
                              !.raised = Error("TimeoutError", "timed out",
                                               <<>>)]]
    /\ UNCHANGED chan
    /\ UNCHANGED <<svars, dvars, cvars, ovars, avars>>

\* sock.recv of session s raises ConnectionRefusedError: nothing listened on
\* the port of its device when the start command arrived.  The pending
\* error is reported by the first recv, before any datagram that is queued
\* on the socket
PairRefused(s) ==
    /\ pair[s].pc = "ACTIVE"
    /\ pair[s].sock = "open"
    /\ \A dev \in Devices : pair[s].read[dev] = 0
    /\ pair' = [pair EXCEPT ![s] =
                    [@ EXCEPT !.pc = "REFUSED", !.sock = "closed",
                              !.raised = Error("ConnectionRefusedError",
                                               "Connection refused", <<>>)]]
    /\ UNCHANGED chan
    /\ UNCHANGED <<svars, dvars, cvars, ovars, avars>>

\* The caller of session s stops iterating while run_test is suspended at
\* its yield: the generator is finalised and the with block closes the
\* socket
PairClose(s) ==
    /\ pair[s].pc = "ACTIVE"
    /\ pair[s].sock = "open"
    /\ \E dev \in Devices :
          /\ Delivers(s, dev)
          /\ pair[s].read[dev] > 0
          /\ from_bytes(chan[<<dev, s>>][pair[s].read[dev]]).ok
          /\ Dispatch(from_bytes(chan[<<dev, s>>][pair[s].read[dev]]).message)
                = "yield"
    /\ pair' = [pair EXCEPT ![s] = [@ EXCEPT !.sock = "closed"]]
    /\ UNCHANGED chan
    /\ UNCHANGED <<svars, dvars, cvars, ovars, avars>>

PairNext ==
    \E s \in Sessions :
       \/ PairStart(s)
       \/ PairRecv(s)
       \/ PairTimeout(s)
       \/ PairRefused(s)
       \/ PairClose(s)
       \/ \E dev \in Devices : DeviceSend(dev, s)

PairSpec == Init /\ [][PairNext]_vars

(***************************************************************************)
(* C11  udp_multicast_client sends the probe once and returns every        *)
(* received (address, port, payload) in arrival order.                     *)
(***************************************************************************)
\* The Datagram tuples of what recvfrom returned, in arrival order
Collected == [i \in 1..Len(drcvd) |->
                 Datagram(drcvd[i][2][1], drcvd[i][2][2], drcvd[i][1])]

McastReturned == dpc \in {"RETURNED", "DONE", "RAISED"}

\* C11: once the call has started exactly one probe has been sent; the list
\* it returns holds one (address, port, payload) per response received
\* before the timeout, in arrival order, so it is empty when nothing
\* arrived; the timeout leaves the call as a normal return, not an exception
C11_CollectsInArrivalOrder ==
    /\ dpc # "IDLE" => dsent = <<bProbe>>
    /\ McastReturned => datagrams = Collected
    /\ McastReturned /\ drcvd = <<>> => datagrams = <<>>
    /\ dpc = "RETURNED" => draised = NoError /\ dsock = "closed"

C11_Witness ==
    /\ dpc = "RETURNED"
    /\ Len(drcvd) = 3
    /\ drcvd[1][2] # drcvd[2][2]
    /\ drcvd[2][1] # drcvd[3][1]
    /\ datagrams = Collected

(***************************************************************************)
(* C12  Decoding, encoding and decoding again gives the same message.      *)
(***************************************************************************)
\* dict == dict: the same keys with the same values, in any order
SameMapping(d1, d2) == Range(d1) = Range(d2)

\* C12: for every message m that from_bytes produced, from_bytes(to_bytes(m))
\* succeeds and equals m: the same name and the same key/value mapping
C12_RoundTrip ==
    cpc = "REDECODED" =>
        /\ wire = to_bytes(decoded.message)
        /\ redecoded.ok
        /\ redecoded.message.name = decoded.message.name
        /\ SameMapping(redecoded.message.data, decoded.message.data)

C12_Witness ==
    /\ cpc = "REDECODED"
    /\ input = bLatin1
    /\ redecoded.message = decoded.message
    /\ Get(redecoded.message.data, <<"N">>) = <<"E9">>

(***************************************************************************)
(* C13  Encoding what was decoded gives the input bytes back.              *)
(***************************************************************************)
Encoded == cpc \in {"ENCODED", "REDECODED"}

\* The segments of b after the name
Segments(b) == Tail(Split(b, ";"))

\* b is written the way to_bytes writes: every segment, the name and the
\* last included, ends with ";", no segment is empty and no key comes twice
Canonical(b) ==
    LET segs == Segments(b) IN
    /\ segs # <<>>
    /\ Last(segs) = <<>>
    /\ \A i \in 1..(Len(segs) - 1) : segs[i] # <<>>
    /\ \A i, j \in 1..(Len(segs) - 1) :
          i # j => Split(segs[i], "=")[1] # Split(segs[j], "=")[1]

\* C13 as stated: for every byte string b that decodes,
\* to_bytes(from_bytes(b)) = b
C13_EncodeInvertsDecode == Encoded => wire = input

\* C13: for a byte string b that decodes, to_bytes(from_bytes(b)) = b
\* exactly when b is in the form to_bytes writes
C13_EncodeInvertsDecodeOfCanonical == Encoded => (wire = input <=> Canonical(input))

C13_Witness ==
    /\ cpc = "ENCODED"
    /\ Canonical(input)
    /\ Len(decoded.message.data) >= 2
    /\ wire = input

(***************************************************************************)
(* C14  When from_bytes fails.                                             *)
(***************************************************************************)
DecodeRan == cpc # "INPUT" /\ cpc # "IDLE"

\* C14: from_bytes raises (a ValueError) exactly when the segment before the
\* first ";" is empty or some non-empty later segment has not exactly one
\* "="; otherwise it returns a message, whose name is therefore not empty
C14_FailsExactlyOnMalformed ==
    DecodeRan =>
        /\ ~decoded.ok <=> (EmptyName(input) \/ BadSegment(input))
        /\ ~decoded.ok => decoded.error.type = "ValueError"
        /\ decoded.ok => decoded.message.name # <<>> /\ decoded.error = NoError
        /\ (cpc = "FAILED") <=> ~decoded.ok

C14_Witness ==
    /\ cpc = "FAILED"
    /\ EmptyName(input)
    /\ ~BadSegment(input)
    /\ Len(Split(input, ";")) >= 3

(***************************************************************************)
(* C15  Empty segments are ignored.                                        *)
(***************************************************************************)
NonEmpty(part) == part # <<>>

\* b with its empty segments after the name taken out and a ";" after
\* every segment that is left
Compact(b) ==
    LET parts == Split(b, ";")
        kept == SelectSeq(Tail(parts), NonEmpty)
    IN  parts[1] \o <<";">> \o Join([i \in 1..Len(kept) |-> kept[i] \o <<";">>])

\* C15: empty segments after the name do not change what is decoded: a
\* byte string decodes to the same message with or without them and with
\* or without the final ";", and a name alone (b"ID", b"ID;") decodes to
\* that name with an empty mapping
C15_EmptySegmentsIgnored ==
    DecodeRan =>
        /\ decoded.ok =>
              /\ from_bytes(Compact(input)).ok
              /\ from_bytes(Compact(input)).message = decoded.message
              /\ from_bytes(input \o <<";">>).ok
              /\ from_bytes(input \o <<";">>).message = decoded.message
        /\ (input # <<>> /\ ";" \notin Range(input)) =>
              decoded.ok /\ decoded.message = DeviceMessage(input, <<>>)
        /\ input \in {bIdBare, bProbe} =>
              decoded.ok /\ decoded.message = DeviceMessage(sID, <<>>)

C15_Witness ==
    /\ cpc = "DECODED"
    /\ input = bEmptySegments
    /\ Compact(input) # input
    /\ decoded.message = DeviceMessage(sID, << <<sMODEL, <<"M","1">> >> >>)

(***************************************************************************)
(* C16  The wire form of a message.                                        *)
(***************************************************************************)
\* key=value; for each entry of d, first to last
RECURSIVE EntrySegments(_)
EntrySegments(d) ==
    IF d = <<>> THEN <<>>
    ELSE Head(d)[1] \o <<"=">> \o Head(d)[2] \o <<";">> \o EntrySegments(Tail(d))

CountSemicolons(b) == Cardinality({i \in 1..Len(b) : b[i] = ";"})

\* C16: to_bytes writes the name, then one key=value segment per entry in
\* the mapping's iteration order, and exactly one ";" after every segment,
\* the name and the last segment included
C16_WireForm ==
    Encoded =>
        /\ wire = decoded.message.name \o <<";">> \o EntrySegments(decoded.message.data)
        /\ Last(wire) = ";"
        /\ CountSemicolons(wire) = 1 + Len(decoded.message.data)

C16_Witness ==
    /\ cpc = "ENCODED"
    /\ Len(decoded.message.data) = 3
    /\ decoded.message.data[1][1] = sTIME
    /\ decoded.message.data[3][1] = sMA
    /\ wire = bStatus1

(***************************************************************************)
(* C17  StatusData.from_message converts MA, MV and TIME.                  *)
(***************************************************************************)
Converted == cpc = "CONVERTED"

\* The decimal number m / 10^e, written with the smallest e
Dec(m, e) == [m |-> m, e |-> e]

\* The message has the key and its value is text float() accepts
Numeric(message, key) ==
    HasKey(message.data, key) /\ float(Get(message.data, key)).ok

\* a = b / 1000, for decimal numbers
IsThousandth(a, b) ==
    \E k \in 0..3 :
        /\ a.e = b.e + 3 - k
        /\ a.m * (IF k = 0 THEN 1 ELSE IF k = 1 THEN 10 ELSE IF k = 2 THEN 100 ELSE 1000)
             = b.m

\* C17: from_message on a STATUS message whose MA, MV and TIME are numeric
\* returns the sample with ma = MA, mv = MV and time = TIME / 1000 (TIME=300
\* gives 0.3); a message of any other name is rejected with an error
C17_ConvertsStatus ==
    Converted =>
        /\ decoded.message.name # sSTATUS =>
              /\ ~status.ok
              /\ status.error.type = "ValueError"
              /\ status.error.args = <<decoded.message.name>>
        /\ (/\ decoded.message.name = sSTATUS
            /\ Numeric(decoded.message, sMA)
            /\ Numeric(decoded.message, sMV)
            /\ Numeric(decoded.message, sTIME)) =>
              /\ status.ok
              /\ status.sample.ma = float(Get(decoded.message.data, sMA)).value
              /\ status.sample.mv = float(Get(decoded.message.data, sMV)).value
              /\ IsThousandth(status.sample.time,
                              float(Get(decoded.message.data, sTIME)).value)
        /\ input = bStatus1 =>
              status.sample = StatusData(Dec(-111, 1), Dec(44489, 1), Dec(3, 1))
        /\ input = bStatus2 =>
              status.sample = StatusData(Dec(7, 0), Dec(5, 0), Dec(4, 1))
        /\ input = bStatusFraction =>
              status.sample = StatusData(Dec(0, 0), Dec(5, 1), Dec(15, 1))

C17_Witness ==
    /\ Converted
    /\ input = bStatus1
    /\ status.ok
    /\ status.sample.time = Dec(3, 1)
    /\ status.sample.ma = Dec(-111, 1)

(***************************************************************************)
(* C18  StatusData.from_message on a message that lacks a key.             *)
(***************************************************************************)
\* The keys from_message reads, in the order it reads them
StatusKeys == <<sMA, sMV, sTIME>>

MissingKeys(message) == {k \in Range(StatusKeys) : ~HasKey(message.data, k)}

\* Position in StatusKeys of the first key the message lacks
FirstMissing(message) ==
    CHOOSE i \in 1..Len(StatusKeys) :
        /\ ~HasKey(message.data, StatusKeys[i])
        /\ \A j \in 1..(i - 1) : HasKey(message.data, StatusKeys[j])

\* Positions before the first missing key whose value float() rejects
InvalidBefore(message) ==
    {j \in 1..(FirstMissing(message) - 1) : ~Numeric(message, StatusKeys[j])}

LacksKey == Converted /\ decoded.message.name = sSTATUS
            /\ MissingKeys(decoded.message) # {}

\* C18 as stated: a STATUS message that lacks any of MA, MV, TIME makes
\* from_message fail without a sample, and the error identifies a key that
\* is missing from the message
C18_MissingKeyNamed ==
    LacksKey =>
        /\ ~status.ok
        /\ status.sample = NoSample
        /\ status.error.text = "Status data missing: {e} not found"
        /\ status.error.args \in {<<k>> : k \in MissingKeys(decoded.message)}

\* C18: a STATUS message that lacks any of MA, MV, TIME makes from_message
\* fail with a ValueError and without a sample; the error names the first
\* missing key in the order MA, MV, TIME, unless a key before it in that
\* order has a value that is not a number: then the error is the one for
\* that invalid value
C18_FirstFailureReported ==
    LacksKey =>
        /\ ~status.ok
        /\ status.sample = NoSample
        /\ status.error.type = "ValueError"
        /\ IF InvalidBefore(decoded.message) = {}
           THEN /\ status.error.text = "Status data missing: {e} not found"
                /\ status.error.args = <<StatusKeys[FirstMissing(decoded.message)]>>
           ELSE /\ status.error.text = "Invalid status data: {e}"
                /\ \E j \in InvalidBefore(decoded.message) :
                      /\ \A i \in InvalidBefore(decoded.message) : j <= i
                      /\ status.error.args = <<Get(decoded.message.data, StatusKeys[j])>>

C18_Witness ==
    /\ Converted
    /\ input = bStatusNoMV
    /\ ~status.ok
    /\ status.error.args = <<sMV>>

(***************************************************************************)
(* C19  The comparison operators of DiscoveryData.                         *)
(***************************************************************************)
\* Place of a record's (model, serial) in the lexicographic order of the
\* pairs of Models and Serials: "M1" < "M10" < "M2", "SN1" < "SN2"
KeyRank(r) ==
    2 * (CASE r.model = <<"M","1">> -> 0
           [] r.model = <<"M","1","0">> -> 1
           [] r.model = <<"M","2">> -> 2)
    + (CASE r.serial = <<"S","N","1">> -> 0
         [] r.serial = <<"S","N","2">> -> 1)

\* C19: <, <=, > and >= on two records a, b are those of a total order on
\* (model, serial) that does not look at address and port: each operator
\* holds exactly when it holds of the keys, and a > b and b > a never hold
\* together
C19_TotalOrderOnKey ==
    opc = "COMPARED" =>
        /\ compared.ab.lt <=> KeyRank(recs[1]) < KeyRank(recs[2])
        /\ compared.ab.gt <=> KeyRank(recs[1]) > KeyRank(recs[2])
        /\ compared.ab.le <=> KeyRank(recs[1]) <= KeyRank(recs[2])
        /\ compared.ab.ge <=> KeyRank(recs[1]) >= KeyRank(recs[2])
        /\ ~(compared.ab.gt /\ compared.ba.gt)

(***************************************************************************)
(* C20  Sorting a list of DiscoveryData.                                   *)
(***************************************************************************)
Occurrences(l, r) == Cardinality({i \in 1..Len(l) : l[i] = r})

\* C20: list.sort() returns the records of the list, each as often as it
\* was there, in non-decreasing order of (model, serial), whatever their
\* addresses and ports
C20_SortedByModelThenSerial ==
    opc = "SORTED" =>
        /\ Len(ordered) = Len(recs)
        /\ \A r \in Records : Occurrences(ordered, r) = Occurrences(recs, r)
        /\ \A i, j \in 1..Len(ordered) :
              i < j => KeyRank(ordered[i]) <= KeyRank(ordered[j])

C20_Witness ==
    /\ opc = "SORTED"
    /\ Len(recs) = 3
    /\ recs[1] = ordered[3]
    /\ ordered[1].model = ordered[2].model
    /\ ordered[1].serial # ordered[2].serial
    /\ ordered[1].port > ordered[2].port
    /\ ordered[2].model = <<"M","1","0">>
    /\ ordered[3].model = <<"M","2">>

(***************************************************************************)
(* C21  Equality and hashing of DiscoveryData.                             *)
(***************************************************************************)
\* C21: two records are equal exactly when address, port, model and serial
\* are all equal: records with the same model and serial but another port
\* are unequal, and a record built from the same fields is equal and finds
\* the same entry of a mapping
C21_EqualOnAllFields ==
    opc = "COMPARED" =>
        /\ compared.ab.eq <=> recs[1] = recs[2]
        /\ compared.ab.eq <=> compared.ba.eq
        /\ (/\ recs[1].model = recs[2].model
            /\ recs[1].serial = recs[2].serial
            /\ recs[1].port # recs[2].port) => ~compared.ab.eq /\ ~compared.ab.entry
        /\ recs[1] = recs[2] => compared.ab.eq /\ compared.ab.entry

C21_Witness ==
    /\ opc = "COMPARED"
    /\ recs[1].model = recs[2].model
    /\ recs[1].serial = recs[2].serial
    /\ recs[1].port # recs[2].port
    /\ ~compared.ab.eq

(***************************************************************************)
(* C22  argparse_address_tuple splits at the last colon.                   *)
(***************************************************************************)
HasColon(s) == \E i \in 1..Len(s) : s[i] = ":"

\* s without its last n characters, and its last n characters
DropLast(s, n) == SubSeq(s, 1, Len(s) - n)

TakeLast(s, n) == SubSeq(s, Len(s) - n + 1, Len(s))

\* The text t is written as an integer: digits behind an optional sign
IsIntegerText(t) ==
    \E k \in 0..1 :
        /\ Len(t) > k
        /\ k = 1 => t[1] \in {"+", "-"}
        /\ \A i \in (k + 1)..Len(t) : t[i] \in Range(Digits)

\* The number the digits of t denote, read left to right from acc on
RECURSIVE Horner(_, _)
Horner(t, acc) ==
    IF t = <<>> THEN acc
    ELSE Horner(Tail(t),
                10 * acc + (CASE Head(t) = "0" -> 0 [] Head(t) = "1" -> 1
                              [] Head(t) = "2" -> 2 [] Head(t) = "3" -> 3
                              [] Head(t) = "4" -> 4 [] Head(t) = "5" -> 5
                              [] Head(t) = "6" -> 6 [] Head(t) = "7" -> 7
                              [] Head(t) = "8" -> 8 [] Head(t) = "9" -> 9))

\* The integer an integer text denotes
IntegerOf(t) ==
    IF t[1] = "-" THEN 0 - Horner(Tail(t), 0)
    ELSE IF t[1] = "+" THEN Horner(Tail(t), 0)
    ELSE Horner(t, 0)

\* C22: argparse_address_tuple returns (the text before the last colon, the
\* integer written after it), so "::1:6060" gives ("::1", 6060); it raises
\* ArgumentTypeError when the argument has no colon and when the text after
\* the last colon is not an integer
C22_SplitsAtLastColon ==
    apc = "DONE" =>
        /\ ~HasColon(argument) =>
              /\ ~converted.ok
              /\ converted.error.type = "ArgumentTypeError"
              /\ converted.error.text = "Port number missing. Use colon to separate."
        /\ \A n \in 0..Len(argument) :
              (/\ n < Len(argument)
               /\ argument[Len(argument) - n] = ":"
               /\ ~HasColon(TakeLast(argument, n))) =>
                  IF IsIntegerText(TakeLast(argument, n))
                  THEN /\ converted.ok
                       /\ converted.address = DropLast(argument, n + 1)
                       /\ converted.port = IntegerOf(TakeLast(argument, n))
                  ELSE /\ ~converted.ok
                       /\ converted.error.type = "ArgumentTypeError"
                       /\ converted.error.args = <<TakeLast(argument, n)>>
        /\ argument = aLoopback6 =>
              converted.ok /\ converted.address = <<":",":","1">> /\ converted.port = 6060
        /\ argument = aLoopback4 =>
              converted.ok /\ converted.address = DropLast(aLoopback4, 5)
              /\ converted.port = 6060

C22_Witness ==
    /\ apc = "DONE"
    /\ argument = aLoopback6
    /\ converted.ok
    /\ converted.address = <<":",":","1">>
    /\ converted.port = 6060

(***************************************************************************)
(* C23  The multicast collect returns after one window.                    *)
(***************************************************************************)
\* C23: the multicast collect always returns, also when the responders keep
\* sending datagrams less than the timeout apart: arrivals do not extend
\* the time it waits
C23_CollectAlwaysReturns == <>McastReturned

(***************************************************************************)
(* C24  Which message completes a session.                                 *)
(***************************************************************************)
\* C24 as stated: a session is COMPLETE only by a message named STATUS that
\* contains STATE=IDLE
C24_CompletesOnStatusIdleOnly ==
    pc = "COMPLETE" => Named(Last(rcvd), sSTATUS) /\ CarriesIdle(Last(rcvd))

\* C24: a session is COMPLETE only by a message that contains STATE=IDLE
\* and whose name is not TEST, STATUS or any other; a TEST message that
\* carries STATE=IDLE does not complete it
C24_CompletesOnNonTestIdle ==
    /\ pc = "COMPLETE" =>
          /\ rcvd # <<>>
          /\ IsNotTest(Last(rcvd))
          /\ CarriesIdle(Last(rcvd))
    /\ (rcvd # <<>> /\ Named(Last(rcvd), sTEST)) => pc # "COMPLETE"
    /\ (/\ rcvd # <<>>
        /\ IsNotTest(Last(rcvd))
        /\ CarriesIdle(Last(rcvd))
        /\ \A i \in 1..(Len(rcvd) - 1) : ~EndsSession(rcvd[i])) => pc = "COMPLETE"

C24_Witness ==
    /\ pc = "COMPLETE"
    /\ Len(rcvd) = 2
    /\ rcvd[1] = bTestIdle
    /\ rcvd[2] = bIdIdle

(***************************************************************************)
(* C25  What a session yields.                                             *)
(***************************************************************************)
\* m is a STATUS message with numeric MA, MV and TIME
TelemetryMessage(m) ==
    /\ m.name = sSTATUS
    /\ Numeric(m, sMA)
    /\ Numeric(m, sMV)
    /\ Numeric(m, sTIME)

\* C25 as stated: every item yielded is a sample of a STATUS message with
\* MA, MV and TIME, and a non-TEST message that is not one ends the session
\* in ERROR instead of being yielded
C25_YieldsOnlyTelemetry ==
    /\ \A i \in 1..Len(yielded) : TelemetryMessage(yielded[i])
    /\ (/\ rcvd # <<>>
        /\ IsNotTest(Last(rcvd))
        /\ ~CarriesIdle(Last(rcvd))
        /\ ~TelemetryMessage(from_bytes(Last(rcvd)).message)) => pc # "ACTIVE"

\* C25: every item yielded is the decoded message, not converted, of a
\* datagram whose name is not TEST and which does not carry STATE=IDLE,
\* whatever its name and fields; StatusData.from_message, which the caller
\* applies to the item, returns a sample exactly when the item is a STATUS
\* message with numeric MA, MV and TIME and raises otherwise; the session
\* itself is in ERROR only by a datagram that does not decode
C25_YieldsMessagesUnconverted ==
    /\ \A i \in 1..Len(yielded) :
          /\ yielded[i] \in {from_bytes(rcvd[j]).message : j \in 1..Len(rcvd)}
          /\ yielded[i].name # sTEST
          /\ <<sSTATE, sIDLE>> \notin Range(yielded[i].data)
          /\ from_message(yielded[i]).ok <=> TelemetryMessage(yielded[i])
          /\ ~from_message(yielded[i]).ok =>
                from_message(yielded[i]).error.type = "ValueError"
    /\ (/\ rcvd # <<>>
        /\ IsNotTest(Last(rcvd))
        /\ ~CarriesIdle(Last(rcvd))
        /\ pc = "ACTIVE") => Last(yielded) = from_bytes(Last(rcvd)).message
    /\ pc = "ERROR" => ~from_bytes(Last(rcvd)).ok

C25_Witness ==
    /\ pc = "ACTIVE"
    /\ rcvd = <<bStatus1, bIdReply, bStatusNoMV>>
    /\ Len(yielded) = 3
    /\ from_message(yielded[1]).ok
    /\ ~from_message(yielded[2]).ok
    /\ from_message(yielded[3]).error.args = <<sMV>>

(***************************************************************************)
(* C26                                                                     *)
(***************************************************************************)

\* The datagram b is the acknowledgment: a TEST message with RESULT=STARTED
IsStarted(b) ==
    /\ from_bytes(b).ok
    /\ from_bytes(b).message.name = sTEST
    /\ <<sRESULT, sSTARTED>> \in Range(from_bytes(b).message.data)

\* The acknowledgment is among the datagrams received so far
Acknowledged == \E i \in 1..Len(rcvd) : IsStarted(rcvd[i])

\* C26 as stated: no item is yielded to the caller before the
\* acknowledgment TEST message with RESULT=STARTED has been received
C26_NoYieldBeforeStarted == [][yielded' # yielded => Acknowledged]_vars

\* C26: the acknowledgment changes nothing in a session.  A received message
\* that decodes, is not named TEST and does not carry STATE=IDLE is yielded
\* on receipt whether or not RESULT=STARTED has been received before it, and
\* receiving a TEST message (the acknowledgment included) leaves the session
\* running with the same yielded items.
C26_YieldsWithoutAcknowledgment ==
    [][(pc = "ACTIVE" /\ rcvd' # rcvd) =>
         LET b == Last(rcvd')
             m == from_bytes(b)
         IN  /\ (m.ok /\ m.message.name # sTEST /\ ~CarriesIdle(b))
                   => (yielded' = Append(yielded, m.message) /\ pc' = "ACTIVE")
             /\ (m.ok /\ m.message.name = sTEST)
                   => (yielded' = yielded /\ pc' = "ACTIVE")]_vars

\* A status message received before the acknowledgment was yielded, and so
\* was one received after it
C26_Witness ==
    /\ pc = "ACTIVE"
    /\ rcvd = <<bStatus1, bStarted, bStatus1>>
    /\ ~IsStarted(rcvd[1])
    /\ IsStarted(rcvd[2])
    /\ yielded = <<from_bytes(bStatus1).message, from_bytes(bStatus1).message>>

(***************************************************************************)
(* C27                                                                     *)
(***************************************************************************)

\* run_test has returned or raised: control has returned to the caller of
\* the session for the last time
SessionLeft == pc \in {"COMPLETE", "TIMED_OUT", "REFUSED", "ERROR"}

\* udp_multicast_client has returned
DiscoveryLeft == dpc \in {"RETURNED", "DONE", "RAISED"}

\* C27: once run_test has ended (completion on STATE=IDLE, timeout, refused
\* connection or decode error) the socket it opened is closed, and once
\* udp_multicast_client has returned the socket it opened is closed; a
\* socket is open only while its call is still running.
C27_SocketClosedOnExit ==
    /\ SessionLeft => sock = "closed"
    /\ DiscoveryLeft => dsock = "closed"
    /\ sock = "open" => pc = "ACTIVE"
    /\ dsock = "open" => dpc = "COLLECT"

\* A session that ended on a decode error next to a discovery call that
\* has returned: both sockets are closed
C27_Witness ==
    /\ pc = "ERROR"
    /\ raised.type = "ValueError"
    /\ sock = "closed"
    /\ dpc = "RETURNED"
    /\ dsock = "closed"

(***************************************************************************)
(* C28                                                                     *)
(***************************************************************************)

\* The datagram decodes to a message that is neither TEST nor STATE=IDLE
PassedOn(b) == from_bytes(b).ok /\ IsNotTest(b) /\ ~CarriesIdle(b)

\* What the device of session s has sent to it and its socket has returned
OwnFeed(s) == SubSeq(chan[<<Peer(s), s>>], 1, pair[s].read[Peer(s)])

\* The other session
Other(s) == IF s = "S1" THEN "S2" ELSE "S1"

\* C28: of two concurrent sessions against different devices, each has
\* yielded exactly the passed-on messages among the datagrams its own device
\* has sent to it, in the order the device sent them, and has read nothing
\* that the other device sent; and no step of one session (its completion,
\* timeout and error included) changes anything of the other session.
C28_SessionsIsolated ==
    /\ [](\A s \in Sessions :
            LET f == SelectSeq(OwnFeed(s), PassedOn)
            IN  /\ pair[s].yielded
                      = [i \in 1..Len(f) |-> from_bytes(f[i]).message]
                /\ pair[s].read[Peer(Other(s))] = 0)
    /\ [][\A s \in Sessions :
             pair'[s] # pair[s] => pair'[Other(s)] = pair[Other(s)]]_vars

\* One session yielded two status messages in its device's order while the
\* other, whose socket was sent STATE=IDLE by the wrong device, timed out
\* without ending it
C28_Witness ==
    /\ chan[<<"D1", "S1">>] = <<bStatus2, bStatus1>>
    /\ pair["S1"].yielded
          = <<from_bytes(bStatus2).message, from_bytes(bStatus1).message>>
    /\ pair["S1"].pc = "ACTIVE"
    /\ chan[<<"D1", "S2">>] = <<bIdle>>
    /\ pair["S2"].pc = "TIMED_OUT"

(***************************************************************************)
(* C29                                                                     *)
(***************************************************************************)

\* C29: nothing is sent twice.  A session that has started has sent exactly
\* one datagram, the start command built from its arguments, and a discovery
\* call that has started has sent exactly one datagram, the probe, whatever
\* state they are in: receiving, timed out, refused, failed on a malformed
\* message, or returned.
C29_SendsExactlyOnce ==
    /\ sent = IF pc = "IDLE" THEN <<>> ELSE <<StartMessage(duration, rate)>>
    /\ dsent = IF dpc = "IDLE" THEN <<>> ELSE <<bProbe>>

\* A session that failed on a malformed datagram next to a discovery call
\* that failed on a malformed response
C29_Witness ==
    /\ pc = "ERROR"
    /\ Len(sent) = 1
    /\ dpc = "RAISED"
    /\ Len(dsent) = 1

(***************************************************************************)
(* C30                                                                     *)
(***************************************************************************)

\* The message has every key from_message reads
AllPresent(message) == MissingKeys(message) = {}

\* Every key of StatusKeys the message has carries text float() accepts
PresentAreNumeric(message) ==
    \A k \in Range(StatusKeys) :
        HasKey(message.data, k) => float(Get(message.data, k)).ok

\* C30: from_message reports an absent key and a non-numeric value with two
\* different error texts.  On a STATUS message that has MA, MV and TIME, one
\* of them not numeric, it raises the ValueError "Invalid status data: ..."
\* and not the one for a missing key; on a STATUS message that lacks a key
\* and whose other values are numeric it raises the ValueError "Status data
\* missing: ... not found" and not the one for an invalid value.
C30_MissingAndInvalidDistinct ==
    (Converted /\ decoded.message.name = sSTATUS) =>
        /\ (AllPresent(decoded.message) /\ ~PresentAreNumeric(decoded.message))
              => /\ ~status.ok
                 /\ status.error.type = "ValueError"
                 /\ status.error.text = "Invalid status data: {e}"
                 /\ status.error.args \notin {<<k>> : k \in Range(StatusKeys)}
        /\ (~AllPresent(decoded.message) /\ PresentAreNumeric(decoded.message))
              => /\ ~status.ok
                 /\ status.error.type = "ValueError"
                 /\ status.error.text = "Status data missing: {e} not found"
                 /\ status.error.args
                       \in {<<k>> : k \in MissingKeys(decoded.message)}

\* A status message with all three keys whose TIME is not a number was
\* reported as invalid
C30_Witness ==
    /\ Converted
    /\ input = bStatusBadTime
    /\ AllPresent(decoded.message)
    /\ status.error.text = "Invalid status data: {e}"
    /\ status.error.args = <<Get(decoded.message.data, sTIME)>>

====
